---- MODULE Spec2Model ----
(***************************************************************************)
(* GlobalPay Gateway, fraud-detection service: the rule pipeline of        *)
(* FraudEngine.AnalyzeTransaction (services/fraud-detection/internal/      *)
(* service/fraud_engine.go, stored in src/.../handler/fraud_handler.go     *)
(* from line 60 on) and its decision policy.                               *)
(*                                                                         *)
(* One request is followed from the call of AnalyzeTransaction to its      *)
(* return.  The Signal Store (FraudRepository), the clock, the Result Sink *)
(* and the Alert Channel are the environment: every answer they can give   *)
(* is drawn when the code asks for it and is recorded in `signals`.  The    *)
(* repository of this source tree answers GetRecentLocations, IsBlacklisted *)
(* and IsKnownDevice with the constants [US, CA], false and true; those    *)
(* answers are among the ones drawn.                                       *)
(* Amounts are whole reference units; RuleResult.Description is a          *)
(* formatted string no decision reads and is left out.                     *)
(***************************************************************************)
EXTENDS Integers, Sequences, FiniteSets, TLC

VARIABLES
    pc,       \* position inside AnalyzeTransaction
    req,      \* the FraudCheckRequest of the call
    idx,      \* index into rules of the evaluator the loop runs next
    resp,     \* the FraudCheckResponse being built
    signals,  \* what the Signal Store and the clock answered, per lookup
    errlog,   \* evaluator names logged by "fraud rule execution failed"
    sink,     \* results handed to SaveFraudCheck, with the outcome of each
    alerts,   \* responses handed to sendFraudAlert
    ret,      \* what AnalyzeTransaction returned
    probe,    \* scores handed directly to calculateRiskLevel / makeDecision
    deadline, \* the deadline of the caller's context: "none", "open", "exceeded"
    live,     \* the MLModel the service holds
    files,    \* model storage: what each model path holds
    train,    \* the TrainModel call in progress
    pred,     \* the Predict call in progress
    call,     \* the last call of EvaluateModel or ExtractFeatures
    payments, \* payment gateway: the rows of the payments table
    idem,     \* payment gateway: the idempotency entries in Redis
    intents,  \* payment gateway: the payment intents Stripe holds
    calls,    \* payment gateway: the call each client has in progress
    ledger,   \* transaction ledger: the committed rows of its tables
    tx,       \* transaction ledger: the CreateDoubleEntry call in progress
    rates,    \* currency conversion: what cache, rate API and database hold
    fx        \* currency conversion: the GetRate / Convert call in progress

\* the state of the risk model and of the calls on it
mlvars == <<live, files, train, pred, call>>

\* the state of one AnalyzeTransaction call
fraudvars == <<pc, req, idx, resp, signals, errlog, sink, alerts, ret, probe, deadline>>

\* the state of the payment gateway
payvars == <<payments, idem, intents, calls>>

\* the state of the transaction ledger
ledgervars == <<ledger, tx>>

\* the state of the currency conversion service
fxvars == <<rates, fx>>

\* the state of the three other services
svcvars == <<payvars, ledgervars, fxvars>>

vars == <<fraudvars, mlvars, svcvars>>

----------------------------------------------------------------------------
(* Bounds of the model *)

\* velocity counts range over 0..MaxCount
MaxCount == 12

\* the decision policy is probed on the scores 0..100 and ProbeMargin beyond
ProbeMargin == 3

Counts == 0..MaxCount
Amounts == {100, 5000, 5001, 10000, 10001, 15000}
Currencies == {"USD", "EUR"}
Countries == {"US", "FR", "XX"}
LocationSets == {{}, {"US", "CA"}}
Hours == {1, 2, 5, 6}
Fingerprints == {"", "fp1"}
ProbeScores == (0 - ProbeMargin)..(100 + ProbeMargin)

----------------------------------------------------------------------------
(* models.RiskLevel, models.Decision *)

RiskLevelLow == "low"
RiskLevelMedium == "medium"
RiskLevelHigh == "high"
DecisionApprove == "approve"
DecisionReview == "review"
DecisionBlock == "block"

\* the zero value of models.Decision: the response before makeDecision ran
DecisionUnset == ""

\* the evaluators in the order of the rules slice
rules ==
    << "velocity_check", "amount_threshold", "geolocation_check",
       "blacklist_check", "time_pattern", "device_fingerprint" >>

highRiskCountries == {"XX", "YY"}

\* a RuleResult as the evaluators create it: not triggered, score 0
NewRuleResult(name) == [RuleName |-> name, Triggered |-> FALSE, Score |-> 0]

\* the response AnalyzeTransaction starts from
InitResponse ==
    [ Score |-> 0, RiskLevel |-> RiskLevelLow, Decision |-> DecisionUnset,
      Flags |-> << >>, Rules |-> << >> ]

\* an answer of the Signal Store: the value and whether err # nil
Answer(e, v) == [err |-> e, val |-> v]

NoSignals ==
    [ velocity |-> [asked |-> FALSE, err |-> FALSE, val |-> 0],
      geo |-> [asked |-> FALSE, err |-> FALSE, val |-> {}],
      blacklist |-> [asked |-> FALSE, err |-> FALSE, val |-> FALSE],
      hour |-> [asked |-> FALSE, err |-> FALSE, val |-> 0],
      device |-> [asked |-> FALSE, err |-> FALSE, val |-> FALSE] ]

Asked(a) == [asked |-> TRUE, err |-> a.err, val |-> a.val]

\* an evaluator's outcome: the response it leaves and whether it returned an error
Out(r, e) == [resp |-> r, err |-> e]

\* the if-branches of the evaluators: flag appended, score added to the total
Trigger(r, rr, flag, score) ==
    [ resp |-> [r EXCEPT !.Flags = Append(@, flag), !.Score = @ + score],
      rr |-> [rr EXCEPT !.Triggered = TRUE, !.Score = score] ]

AppendRule(r, rr) == [r EXCEPT !.Rules = Append(@, rr)]

----------------------------------------------------------------------------
(* The evaluators *)

checkVelocity(count, r) ==
    IF count.err THEN Out(r, TRUE)
    ELSE LET rr == NewRuleResult("velocity_check")
             t == IF count.val > 10 THEN Trigger(r, rr, "high_velocity", 40)
                  ELSE IF count.val > 5 THEN Trigger(r, rr, "moderate_velocity", 20)
                  ELSE [resp |-> r, rr |-> rr]
         IN  Out(AppendRule(t.resp, t.rr), FALSE)

\* the placeholder conversion of checkAmountThreshold: req.Amount * 1.0
amountUSD(q) == IF q.Currency # "USD" THEN q.Amount * 1 ELSE q.Amount

\* checkAmountThreshold with inclusive thresholds (>= 10000, >= 5000)
checkAmountThresholdInclusive(q, r) ==
    LET rr == NewRuleResult("amount_threshold")
        t == IF amountUSD(q) >= 10000 THEN Trigger(r, rr, "large_amount", 30)
             ELSE IF amountUSD(q) >= 5000 THEN Trigger(r, rr, "elevated_amount", 15)
             ELSE [resp |-> r, rr |-> rr]
    IN  Out(AppendRule(t.resp, t.rr), FALSE)

checkAmountThreshold(q, r) ==
    LET rr == NewRuleResult("amount_threshold")
        t == IF amountUSD(q) > 10000 THEN Trigger(r, rr, "large_amount", 30)
             ELSE IF amountUSD(q) > 5000 THEN Trigger(r, rr, "elevated_amount", 15)
             ELSE [resp |-> r, rr |-> rr]
    IN  Out(AppendRule(t.resp, t.rr), FALSE)

checkGeolocation(q, locs, r) ==
    IF locs.err THEN Out(r, TRUE)
    ELSE LET rr == NewRuleResult("geolocation_check")
             isNewLocation == locs.val # {} /\ q.Country \notin locs.val
             t1 == IF isNewLocation THEN Trigger(r, rr, "new_location", 25)
                   ELSE [resp |-> r, rr |-> rr]
             t2 == IF q.Country \in highRiskCountries
                   THEN Trigger(t1.resp, t1.rr, "high_risk_country", 35)
                   ELSE t1
         IN  Out(AppendRule(t2.resp, t2.rr), FALSE)

checkBlacklist(isBlacklisted, r) ==
    IF isBlacklisted.err THEN Out(r, TRUE)
    ELSE LET rr == NewRuleResult("blacklist_check")
             t == IF isBlacklisted.val
                  THEN [ resp |-> [r EXCEPT !.Flags = Append(@, "blacklisted"),
                                            !.Score = 100],
                         rr |-> [rr EXCEPT !.Triggered = TRUE, !.Score = 100] ]
                  ELSE [resp |-> r, rr |-> rr]
         IN  Out(AppendRule(t.resp, t.rr), FALSE)

checkTimePattern(hour, r) ==
    LET rr == NewRuleResult("time_pattern")
        t == IF hour.val >= 2 /\ hour.val <= 5
             THEN Trigger(r, rr, "unusual_hour", 10)
             ELSE [resp |-> r, rr |-> rr]
    IN  Out(AppendRule(t.resp, t.rr), FALSE)

checkDeviceFingerprint(q, isKnownDevice, r) ==
    LET rr == NewRuleResult("device_fingerprint")
    IN  IF q.DeviceFingerprint # ""
        THEN IF isKnownDevice.err THEN Out(r, TRUE)
             ELSE LET t == IF ~isKnownDevice.val
                           THEN Trigger(r, rr, "new_device", 15)
                           ELSE [resp |-> r, rr |-> rr]
                  IN  Out(AppendRule(t.resp, t.rr), FALSE)
        ELSE Out(AppendRule(r, rr), FALSE)

----------------------------------------------------------------------------
(* The decision policy *)

\* calculateRiskLevel with the high threshold off by one (score > 70)
calculateRiskLevelStrict(score) ==
    IF score > 70 THEN RiskLevelHigh
    ELSE IF score >= 40 THEN RiskLevelMedium
    ELSE RiskLevelLow

calculateRiskLevel(score) ==
    IF score >= 70 THEN RiskLevelHigh
    ELSE IF score >= 40 THEN RiskLevelMedium
    ELSE RiskLevelLow

\* makeDecision with the test of the high branch inverted
makeDecisionInverted(riskLevel, score) ==
    IF riskLevel = RiskLevelHigh
    THEN IF score >= 90 THEN DecisionReview ELSE DecisionBlock
    ELSE IF riskLevel = RiskLevelMedium THEN DecisionReview
    ELSE DecisionApprove

makeDecision(riskLevel, score) ==
    IF riskLevel = RiskLevelHigh
    THEN IF score >= 90 THEN DecisionBlock ELSE DecisionReview
    ELSE IF riskLevel = RiskLevelMedium THEN DecisionReview
    ELSE DecisionApprove

----------------------------------------------------------------------------
(* AnalyzeTransaction *)

\* the evaluator `name` of the rules slice, on the answers the store gave
EvalRule(name, q, sig, r) ==
    CASE name = "velocity_check" -> checkVelocity(sig.velocity, r)
      [] name = "amount_threshold" -> checkAmountThreshold(q, r)
      [] name = "geolocation_check" -> checkGeolocation(q, sig.geo, r)
      [] name = "blacklist_check" -> checkBlacklist(sig.blacklist, r)
      [] name = "time_pattern" -> checkTimePattern(sig.hour, r)
      [] name = "device_fingerprint" -> checkDeviceFingerprint(q, sig.device, r)

\* the loop leaving at the first evaluator that returns an error
AfterRuleStopOnError(i, out) == IF out.err THEN Len(rules) + 1 ELSE i + 1

\* the loop leaving as soon as the blacklist flag is raised
AfterRuleShortCircuit(i, out) ==
    IF \E k \in 1..Len(out.resp.Flags) : out.resp.Flags[k] = "blacklisted"
    THEN Len(rules) + 1
    ELSE i + 1

\* the for-loop over rules: an error is logged and the loop goes on
AfterRule(i, out) == i + 1

\* the result handed to SaveFraudCheck
FraudCheckResult(r) ==
    [ Score |-> r.Score, RiskLevel |-> r.RiskLevel, Decision |-> r.Decision,
      Flags |-> r.Flags ]

\* a failed save tried again
AfterSaveRetry(ok) == IF ok THEN "alert" ELSE "save"

\* a failed save is logged and the call goes on to the alert
AfterSave(ok) == "alert"

\* the webhook sent for every level above low
ShouldAlertAboveLow(riskLevel) == riskLevel # RiskLevelLow

\* the webhook is sent for a high risk level only
ShouldAlert(riskLevel) == riskLevel = RiskLevelHigh

\* a context whose deadline has passed makes AnalyzeTransaction fail
returnErrOnDeadline(dl) == IF dl = "exceeded" THEN "context deadline exceeded" ELSE "nil"

\* the error AnalyzeTransaction returns: always nil
returnErr(dl) == "nil"

----------------------------------------------------------------------------
(* float64 arithmetic of the risk model (ml_model.go).  A number is an      *)
(* integer count of ten-thousandths; every operation rounds its result to  *)
(* FloatDigits significant decimal digits, as float64 rounds to 53 bits,   *)
(* so that, as in float64, a sum depends on the order of its terms.        *)

\* 1.0
One == 10000

\* significant decimal digits a number keeps
FloatDigits == 3

Abs(x) == IF x >= 0 THEN x ELSE 0 - x

\* x / q rounded to the nearest integer, halves away from zero (q > 0)
RoundDiv(x, q) ==
    IF x >= 0 THEN (x + q \div 2) \div q ELSE 0 - ((0 - x + q \div 2) \div q)

RECURSIVE Quantum(_, _)
\* the spacing of the representable numbers at magnitude a
Quantum(a, q) == IF a < (10 ^ FloatDigits) * q THEN q ELSE Quantum(a, 10 * q)

\* x rounded to a representable number
Fl(x) == LET q == Quantum(Abs(x), 1) IN RoundDiv(x, q) * q

FAdd(a, b) == Fl(a + b)
FSub(a, b) == Fl(a - b)
FMul(a, b) == Fl(RoundDiv(a * b, One))
\* a / b for b # 0 (a and b in the same unit)
FDiv(a, b) == Fl(IF b > 0 THEN RoundDiv(a * One, b) ELSE 0 - RoundDiv(a * One, 0 - b))

\* 1/(1+e^-z) at the knots z = 0, 0.5, 1, 2, 3, 4, 6, 10, linear in between
SigmoidKnots ==
    << <<0, 5000>>, <<5000, 6225>>, <<10000, 7311>>, <<20000, 8808>>,
       <<30000, 9526>>, <<40000, 9820>>, <<60000, 9975>>, <<100000, 9999>> >>

RECURSIVE SigmoidFrom(_, _)
SigmoidFrom(z, i) ==
    IF i >= Len(SigmoidKnots) THEN SigmoidKnots[Len(SigmoidKnots)][2]
    ELSE LET a == SigmoidKnots[i]
             b == SigmoidKnots[i + 1]
         IN  IF z < b[1]
             THEN a[2] + ((z - a[1]) * (b[2] - a[2])) \div (b[1] - a[1])
             ELSE SigmoidFrom(z, i + 1)

\* MLModel.sigmoid: 1.0 / (1.0 + math.Exp(-x))
sigmoid(x) == Fl(IF x >= 0 THEN SigmoidFrom(x, 1) ELSE One - SigmoidFrom(0 - x, 1))

----------------------------------------------------------------------------
(* MLModel *)

FeatureNames == {"amount", "velocity", "new_location", "unusual_hour", "new_device"}

NewMLModel ==
    [ weights |-> [k \in FeatureNames |-> 0],
      bias |-> 0, learningRate |-> 100, trained |-> FALSE, version |-> "1.0.0" ]

LoadPretrainedModel ==
    [ weights |-> [k \in FeatureNames |->
                    CASE k = "amount" -> 3500
                      [] k = "velocity" -> 2800
                      [] k = "new_location" -> 1800
                      [] k = "unusual_hour" -> 1200
                      [] k = "new_device" -> 700],
      bias |-> 0 - 4500, learningRate |-> 100, trained |-> TRUE, version |-> "1.0.0" ]

\* one iteration of the loop of Predict: feature k of vector f added to score
PredictTerm(m, f, k, score) ==
    IF k \in DOMAIN m.weights THEN FAdd(score, FMul(m.weights[k], f[k])) ELSE score

\* the last two lines of Predict: probability * 100
PredictResult(score) == Fl(sigmoid(score) * 100)

RECURSIVE PredictLoop(_, _, _, _)
PredictLoop(m, f, order, score) ==
    IF order = << >> THEN score
    ELSE PredictLoop(m, f, Tail(order), PredictTerm(m, f, Head(order), score))

\* Predict when `range features` visits the keys in the order given
PredictIn(m, f, order) == PredictResult(PredictLoop(m, f, order, m.bias))

\* the orders in which a range over a map with the keys S can visit them
Orders(S) ==
    {o \in [1..Cardinality(S) -> S] : \A i, j \in 1..Cardinality(S) : i # j => o[i] # o[j]}

\* every score Predict can compute before the sigmoid
PredictScores(m, f) == {PredictLoop(m, f, o, m.bias) : o \in Orders(DOMAIN f)}

\* every value Predict can return
PredictResults(m, f) == {PredictIn(m, f, o) : o \in Orders(DOMAIN f)}

ExtractFeaturesUnclamped(amount, velocityCount, isNewLocation, isUnusualHour, isNewDevice) ==
    [k \in FeatureNames |->
       CASE k = "amount" -> FDiv(amount, 10000)
         [] k = "velocity" -> FDiv(velocityCount, 20)
         [] k = "new_location" -> IF isNewLocation THEN One ELSE 0
         [] k = "unusual_hour" -> IF isUnusualHour THEN One ELSE 0
         [] k = "new_device" -> IF isNewDevice THEN One ELSE 0]

\* ExtractFeatures, on the amount of the request (whole units)
ExtractFeatures(amount, velocityCount, isNewLocation, isUnusualHour, isNewDevice) ==
    LET min(a, b) == IF a < b THEN a ELSE b
    IN  [k \in FeatureNames |->
           CASE k = "amount" -> min(FDiv(amount, 10000), One)
             [] k = "velocity" -> min(FDiv(velocityCount, 20), One)
             [] k = "new_location" -> IF isNewLocation THEN One ELSE 0
             [] k = "unusual_hour" -> IF isUnusualHour THEN One ELSE 0
             [] k = "new_device" -> IF isNewDevice THEN One ELSE 0]

\* no call on the risk model is in progress
NoCall == [op |-> "none"]

\* no Predict call was made
NoPredict ==
    [pc |-> "idle", f |-> << >>, todo |-> {}, score |-> 0, results |-> << >>]

\* the payment gateway, the ledger and the currency conversion are not used
ServicesIdle ==
    /\ payments = NoCall
    /\ idem = NoCall
    /\ intents = NoCall
    /\ calls = NoCall
    /\ ledger = NoCall
    /\ tx = NoCall
    /\ rates = NoCall
    /\ fx = NoCall

\* the risk model before any of its operations is used
ModelIdle ==
    /\ live = NoCall
    /\ files = NoCall
    /\ train = NoCall
    /\ pred = NoPredict
    /\ call = NoCall

NoProbe ==
    [ state |-> "none", s1 |-> 0, s2 |-> 0,
      l1 |-> "", d1 |-> "", l2 |-> "", d2 |-> "" ]

Init ==
    /\ pc = "idle"
    /\ req = [Amount |-> 0, Currency |-> "", Country |-> "", DeviceFingerprint |-> ""]
    /\ idx = 0
    /\ resp = InitResponse
    /\ signals = NoSignals
    /\ errlog = << >>
    /\ sink = << >>
    /\ alerts = << >>
    /\ ret = [returned |-> FALSE, resp |-> InitResponse, err |-> "nil"]
    /\ probe = NoProbe
    /\ deadline = "none"
    /\ ModelIdle
    /\ ServicesIdle

\* CheckFraud binds a request and calls AnalyzeTransaction
Start ==
    /\ pc = "idle"
    /\ \E a \in Amounts, c \in Currencies, k \in Countries, f \in Fingerprints :
          req' = [Amount |-> a, Currency |-> c, Country |-> k, DeviceFingerprint |-> f]
    /\ resp' = InitResponse
    /\ idx' = 1
    /\ pc' = "rules"
    /\ UNCHANGED <<signals, errlog, sink, alerts, ret, probe, deadline, mlvars, svcvars>>

\* one iteration of the loop, with the answers sig of the store
RunRule(name, sig) ==
    /\ pc = "rules"
    /\ idx \in 1..Len(rules)
    /\ rules[idx] = name
    /\ LET out == EvalRule(name, req, sig, resp)
       IN  /\ resp' = out.resp
           /\ errlog' = IF out.err THEN Append(errlog, name) ELSE errlog
           /\ idx' = AfterRule(idx, out)
    /\ signals' = sig
    /\ UNCHANGED <<pc, req, sink, alerts, ret, probe, deadline, mlvars, svcvars>>

\* CountRecentTransactions is QueryRowContext(ctx, ...): it fails once the
\* deadline of ctx has passed
RunVelocity ==
    \E e \in BOOLEAN, n \in Counts :
        /\ e => n = 0
        /\ deadline = "exceeded" => e
        /\ RunRule("velocity_check",
                   [signals EXCEPT !.velocity = Asked(Answer(e, n))])

RunAmount == RunRule("amount_threshold", signals)

RunGeolocation ==
    \E e \in BOOLEAN, l \in LocationSets :
        /\ e => l = {}
        /\ RunRule("geolocation_check",
                   [signals EXCEPT !.geo = Asked(Answer(e, l))])

RunBlacklist ==
    \E e \in BOOLEAN, b \in BOOLEAN :
        /\ e => ~b
        /\ RunRule("blacklist_check",
                   [signals EXCEPT !.blacklist = Asked(Answer(e, b))])

RunTimePattern ==
    \E h \in Hours :
        RunRule("time_pattern", [signals EXCEPT !.hour = Asked(Answer(FALSE, h))])

RunDevice ==
    IF req.DeviceFingerprint # ""
    THEN \E e \in BOOLEAN, k \in BOOLEAN :
            /\ e => ~k
            /\ RunRule("device_fingerprint",
                       [signals EXCEPT !.device = Asked(Answer(e, k))])
    ELSE RunRule("device_fingerprint", signals)

\* "Calculate final risk level"
Decide ==
    /\ pc = "rules"
    /\ idx > Len(rules)
    /\ resp' = [resp EXCEPT
                  !.RiskLevel = calculateRiskLevel(resp.Score),
                  !.Decision = makeDecision(calculateRiskLevel(resp.Score), resp.Score)]
    /\ pc' = "save"
    /\ UNCHANGED <<req, idx, signals, errlog, sink, alerts, ret, probe, deadline, mlvars, svcvars>>

\* "Save fraud check result"
Save ==
    /\ pc = "save"
    /\ \E ok \in BOOLEAN :
          /\ deadline = "exceeded" => ~ok
          /\ sink' = Append(sink, [result |-> FraudCheckResult(resp), ok |-> ok])
          /\ errlog' = IF ok THEN errlog ELSE Append(errlog, "save_fraud_check")
          /\ pc' = AfterSave(ok)
    /\ UNCHANGED <<req, idx, resp, signals, alerts, ret, probe, deadline, mlvars, svcvars>>

\* "Send webhook if high risk"
Alert ==
    /\ pc = "alert"
    /\ alerts' = IF ShouldAlert(resp.RiskLevel) THEN Append(alerts, resp) ELSE alerts
    /\ pc' = "return"
    /\ UNCHANGED <<req, idx, resp, signals, errlog, sink, ret, probe, deadline, mlvars, svcvars>>

\* return response, nil
Return ==
    /\ pc = "return"
    /\ ret' = [returned |-> TRUE, resp |-> resp, err |-> returnErr(deadline)]
    /\ pc' = "done"
    /\ UNCHANGED <<req, idx, resp, signals, errlog, sink, alerts, probe, deadline, mlvars, svcvars>>

Next ==
    \/ Start
    \/ RunVelocity
    \/ RunAmount
    \/ RunGeolocation
    \/ RunBlacklist
    \/ RunTimePattern
    \/ RunDevice
    \/ Decide
    \/ Save
    \/ Alert
    \/ Return

Spec == Init /\ [][Next]_vars

----------------------------------------------------------------------------
(* AnalyzeTransaction under a context with a deadline: the deadline may     *)
(* pass at any point of the pipeline.  The lookups and the save that hand   *)
(* ctx to database/sql fail from then on; the repository methods that       *)
(* ignore ctx answer as before.                                             *)

InitDeadline ==
    /\ pc = "idle"
    /\ req = [Amount |-> 0, Currency |-> "", Country |-> "", DeviceFingerprint |-> ""]
    /\ idx = 0
    /\ resp = InitResponse
    /\ signals = NoSignals
    /\ errlog = << >>
    /\ sink = << >>
    /\ alerts = << >>
    /\ ret = [returned |-> FALSE, resp |-> InitResponse, err |-> "nil"]
    /\ probe = NoProbe
    /\ deadline = "open"
    /\ ModelIdle
    /\ ServicesIdle

DeadlineExceeded ==
    /\ pc \in {"rules", "save"}
    /\ deadline = "open"
    /\ deadline' = "exceeded"
    /\ UNCHANGED <<pc, req, idx, resp, signals, errlog, sink, alerts, ret, probe, mlvars, svcvars>>

NextDeadline == Next \/ DeadlineExceeded

SpecDeadline == InitDeadline /\ [][NextDeadline]_vars

----------------------------------------------------------------------------
(* The decision policy on its own: calculateRiskLevel and makeDecision are    *)
(* applied to a pair of scores.                                               *)

InitPolicy ==
    /\ pc = "idle"
    /\ req = [Amount |-> 0, Currency |-> "", Country |-> "", DeviceFingerprint |-> ""]
    /\ idx = 0
    /\ resp = InitResponse
    /\ signals = NoSignals
    /\ errlog = << >>
    /\ sink = << >>
    /\ alerts = << >>
    /\ ret = [returned |-> FALSE, resp |-> InitResponse, err |-> "nil"]
    /\ \E a \in ProbeScores, b \in ProbeScores :
          probe = [NoProbe EXCEPT !.state = "input", !.s1 = a, !.s2 = b]
    /\ deadline = "none"
    /\ ModelIdle
    /\ ServicesIdle

Classify ==
    /\ probe.state = "input"
    /\ probe' = [probe EXCEPT
                   !.state = "classified",
                   !.l1 = calculateRiskLevel(probe.s1),
                   !.d1 = makeDecision(calculateRiskLevel(probe.s1), probe.s1),
                   !.l2 = calculateRiskLevel(probe.s2),
                   !.d2 = makeDecision(calculateRiskLevel(probe.s2), probe.s2)]
    /\ UNCHANGED <<pc, req, idx, resp, signals, errlog, sink, alerts, ret, deadline, mlvars, svcvars>>

NextPolicy == Classify

SpecPolicy == InitPolicy /\ [][NextPolicy]_vars

----------------------------------------------------------------------------
(* The risk model (ml_model.go).  Nothing in the repository calls it: its   *)
(* operations are modelled as its callers can use them.                     *)

\* the fraud engine is not used
EngineIdle ==
    /\ pc = "idle"
    /\ req = [Amount |-> 0, Currency |-> "", Country |-> "", DeviceFingerprint |-> ""]
    /\ idx = 0
    /\ resp = InitResponse
    /\ signals = NoSignals
    /\ errlog = << >>
    /\ sink = << >>
    /\ alerts = << >>
    /\ ret = [returned |-> FALSE, resp |-> InitResponse, err |-> "nil"]
    /\ probe = NoProbe
    /\ deadline = "none"

\* the models the two constructors return
ConstructedModels == {NewMLModel, LoadPretrainedModel}

----------------------------------------------------------------------------
(* Predict, one step per iteration of its loop; `range features` visits the *)
(* keys of the map in an order the language leaves unspecified.             *)

\* calls of Predict in one behaviour
MaxPredictCalls == 2

PredictAmounts == {100, 5000, 15000}
PredictCounts == {0, 5, 10}

FeatureVectors ==
    {ExtractFeatures(a, c, nl, uh, nd) :
        a \in PredictAmounts, c \in PredictCounts,
        nl \in BOOLEAN, uh \in BOOLEAN, nd \in BOOLEAN}

InitPredict ==
    /\ EngineIdle
    /\ ServicesIdle
    /\ live \in ConstructedModels
    /\ files = NoCall
    /\ train = NoCall
    /\ pred = NoPredict
    /\ call = NoCall

\* score := m.bias, on a feature vector
PredictBegin ==
    /\ pred.pc = "idle"
    /\ \E f \in FeatureVectors :
          pred' = [pred EXCEPT !.pc = "loop", !.f = f, !.todo = DOMAIN f,
                               !.score = live.bias]
    /\ UNCHANGED <<fraudvars, svcvars, live, files, train, call>>

\* a further call on the same feature vector
PredictAgain ==
    /\ pred.pc = "done"
    /\ Len(pred.results) < MaxPredictCalls
    /\ pred' = [pred EXCEPT !.pc = "loop", !.todo = DOMAIN pred.f, !.score = live.bias]
    /\ UNCHANGED <<fraudvars, svcvars, live, files, train, call>>

\* one iteration of `for feature, value := range features`
PredictStep ==
    /\ pred.pc = "loop"
    /\ \E k \in pred.todo :
          pred' = [pred EXCEPT !.todo = pred.todo \ {k},
                               !.score = PredictTerm(live, pred.f, k, pred.score)]
    /\ UNCHANGED <<fraudvars, svcvars, live, files, train, call>>

\* return m.sigmoid(score) * 100
PredictEnd ==
    /\ pred.pc = "loop"
    /\ pred.todo = {}
    /\ pred' = [pred EXCEPT !.pc = "done",
                            !.results = Append(pred.results, PredictResult(pred.score))]
    /\ UNCHANGED <<fraudvars, svcvars, live, files, train, call>>

NextPredict == PredictBegin \/ PredictAgain \/ PredictStep \/ PredictEnd

SpecPredict == InitPredict /\ [][NextPredict]_vars

----------------------------------------------------------------------------
(* TrainModel, one step per statement that reads or writes the model.       *)

epochs == 100
batchSize == 32

\* a feature vector with the given values and 0 for the other keys listed
Vector(keys, k, v) == [x \in keys |-> IF x = k THEN v ELSE 0]

\* the arguments TrainModel is called with: training data and labels
TrainingSets ==
    { [data |-> << >>, labels |-> << >>],
      [data |-> << Vector({"amount"}, "amount", One) >>, labels |-> << >>],
      [data |-> << Vector({"amount"}, "amount", One),
                   Vector({"velocity"}, "velocity", One) >>,
       labels |-> << One, 0 >>],
      [data |-> << Vector({"amount", "velocity"}, "amount", 5000),
                   Vector({"amount", "velocity"}, "velocity", One) >>,
       labels |-> << 0, One >>] }

\* n indices drawn independently: an index may come twice
IndicesWithRepeats(n) == [1..n -> 1..n]

\* rand.Perm(n), as a sequence of the indices 1..n
Perm(n) == {p \in [1..n -> 1..n] : \A a, b \in 1..n : a # b => p[a] # p[b]}

\* TrainModel was not called on the model m
TrainIdle(m) ==
    [ pc |-> "idle", data |-> << >>, labels |-> << >>, epoch |-> 0,
      indices |-> << >>, i |-> 0, j |-> 0, end |-> 0,
      gradients |-> << >>, biasGradient |-> 0, todo |-> {}, err |-> "nil",
      m0 |-> m, versions |-> {m} ]

\* the epochs during which a concurrent Predict is observed; train.versions
\* holds the complete models of these epochs: the model TrainModel was called
\* on and the model every batch produces
RaceEpochs == 2

InitTrain ==
    /\ EngineIdle
    /\ ServicesIdle
    /\ live \in ConstructedModels
    /\ files = NoCall
    /\ train = TrainIdle(live)
    /\ pred = NoPredict
    /\ call = NoCall

\* entry of TrainModel: the validation of its arguments
TrainBegin ==
    /\ train.pc = "idle"
    /\ pred.pc # "fatal"
    /\ \E ts \in TrainingSets :
          train' = [train EXCEPT
                      !.data = ts.data, !.labels = ts.labels,
                      !.pc = IF Len(ts.data) = 0 \/ Len(ts.data) # Len(ts.labels)
                             THEN "done" ELSE "epoch",
                      !.err = IF Len(ts.data) = 0 \/ Len(ts.data) # Len(ts.labels)
                              THEN "invalid training data" ELSE "nil"]
    /\ UNCHANGED <<fraudvars, svcvars, live, files, pred, call>>

\* head of the epoch loop: indices := rand.Perm(len(trainingData))
TrainEpoch ==
    /\ train.pc = "epoch"
    /\ pred.pc # "fatal"
    /\ train.epoch < epochs
    /\ \E p \in Perm(Len(train.data)) :
          train' = [train EXCEPT !.indices = p, !.i = 0, !.pc = "batch"]
    /\ UNCHANGED <<fraudvars, svcvars, live, files, pred, call>>

\* head of the batch loop: end, gradients, biasGradient
TrainBatch ==
    /\ train.pc = "batch"
    /\ pred.pc # "fatal"
    /\ train' = [train EXCEPT
                   !.end = IF train.i + batchSize > Len(train.data)
                           THEN Len(train.data) ELSE train.i + batchSize,
                   !.j = train.i, !.gradients = << >>, !.biasGradient = 0,
                   !.pc = "sample"]
    /\ UNCHANGED <<fraudvars, svcvars, live, files, pred, call>>

\* gradients[feature] += error * value, for every feature of the vector f
AddGradients(g, f, error) ==
    [k \in DOMAIN g \cup DOMAIN f |->
        IF k \in DOMAIN f
        THEN FAdd(IF k \in DOMAIN g THEN g[k] ELSE 0, FMul(error, f[k]))
        ELSE g[k]]

\* one example of the batch: forward pass and gradients
TrainSample ==
    /\ train.pc = "sample"
    /\ pred.pc # "fatal"
    /\ train.j < train.end
    /\ LET features == train.data[train.indices[train.j + 1]]
           actual == train.labels[train.indices[train.j + 1]]
       IN  \E o \in Orders(DOMAIN features) :
             LET prediction == Fl(RoundDiv(PredictIn(live, features, o), 100))
                 error == FSub(prediction, actual)
             IN  train' = [train EXCEPT
                             !.gradients = AddGradients(train.gradients, features, error),
                             !.biasGradient = FAdd(train.biasGradient, error),
                             !.j = train.j + 1]
    /\ UNCHANGED <<fraudvars, svcvars, live, files, pred, call>>

\* learningRate * (gradient / batchLen)
Step(m, gradient, batchLen) == FMul(m.learningRate, FDiv(gradient, batchLen * One))

\* the model once every update of the batch is written
BatchResult(m, gradients, biasGradient, batchLen) ==
    [m EXCEPT
       !.weights = [k \in DOMAIN m.weights |->
                      IF k \in DOMAIN gradients
                      THEN FSub(m.weights[k], Step(m, gradients[k], batchLen))
                      ELSE m.weights[k]],
       !.bias = FSub(m.bias, Step(m, biasGradient, batchLen))]

\* the batch is processed: the weights that have a gradient are to be updated
\* (the range over m.weights passes over the others without writing)
TrainUpdate ==
    /\ train.pc = "sample"
    /\ pred.pc # "fatal"
    /\ train.j = train.end
    /\ train' = [train EXCEPT
                   !.pc = "update",
                   !.todo = DOMAIN live.weights \cap DOMAIN train.gradients,
                   !.versions = IF train.epoch < RaceEpochs
                                THEN train.versions \cup
                                       {BatchResult(live, train.gradients,
                                                    train.biasGradient, train.end - train.i)}
                                ELSE train.versions]
    /\ UNCHANGED <<fraudvars, svcvars, live, files, pred, call>>

\* m.weights[feature] -= m.learningRate * (grad / batchLen)
TrainUpdateWeight ==
    /\ train.pc = "update"
    /\ pred.pc # "fatal"
    /\ \E k \in train.todo :
          /\ live' = [live EXCEPT !.weights[k] =
                         FSub(live.weights[k],
                              Step(live, train.gradients[k], train.end - train.i))]
          /\ train' = [train EXCEPT !.todo = train.todo \ {k}]
    /\ UNCHANGED <<fraudvars, svcvars, files, pred, call>>

\* m.bias -= m.learningRate * (biasGradient / batchLen), and the loop heads
TrainUpdateBias ==
    /\ train.pc = "update"
    /\ pred.pc # "fatal"
    /\ train.todo = {}
    /\ live' = [live EXCEPT !.bias =
                   FSub(live.bias, Step(live, train.biasGradient, train.end - train.i))]
    /\ train' = [train EXCEPT
                   !.i = train.i + batchSize,
                   !.pc = IF train.i + batchSize < Len(train.data) THEN "batch" ELSE "epoch",
                   !.epoch = IF train.i + batchSize < Len(train.data)
                             THEN train.epoch ELSE train.epoch + 1]
    /\ UNCHANGED <<fraudvars, svcvars, files, pred, call>>

\* m.trained = true; return nil
TrainEnd ==
    /\ train.pc = "epoch"
    /\ pred.pc # "fatal"
    /\ train.epoch = epochs
    /\ live' = [live EXCEPT !.trained = TRUE]
    /\ train' = [train EXCEPT !.pc = "done"]
    /\ UNCHANGED <<fraudvars, svcvars, files, pred, call>>

TrainModel ==
    \/ TrainBegin \/ TrainEpoch \/ TrainBatch \/ TrainSample
    \/ TrainUpdate \/ TrainUpdateWeight \/ TrainUpdateBias \/ TrainEnd

NextTrain == TrainModel

SpecTrain == InitTrain /\ [][NextTrain]_vars

----------------------------------------------------------------------------
(* Predict called by one goroutine while another runs TrainModel on the     *)
(* same model.  MLModel has no lock: the steps of the two interleave.  The  *)
(* Predict call is observed during the first RaceEpochs epochs.             *)

ServeVectors ==
    { Vector({"amount", "velocity"}, "amount", One),
      [k \in {"amount", "velocity"} |-> One] }

InWindow == train.epoch < RaceEpochs

ServeBegin ==
    /\ InWindow
    /\ pred.pc = "idle"
    /\ \E f \in ServeVectors :
          pred' = [pred EXCEPT !.pc = "loop", !.f = f, !.todo = DOMAIN f,
                               !.score = live.bias]
    /\ UNCHANGED <<fraudvars, svcvars, live, files, train, call>>

ServeStep == InWindow /\ PredictStep

ServeEnd == InWindow /\ PredictEnd

\* the runtime finds m.weights read while TrainModel writes it and stops the
\* process: "fatal error: concurrent map read and map write"
ServeFatal ==
    /\ InWindow
    /\ pred.pc = "loop"
    /\ pred.todo # {}
    /\ train.pc = "update"
    /\ train.todo # {}
    /\ pred' = [pred EXCEPT !.pc = "fatal"]
    /\ UNCHANGED <<fraudvars, svcvars, live, files, train, call>>

NextServe == TrainModel \/ ServeBegin \/ ServeStep \/ ServeEnd \/ ServeFatal

SpecServe == InitTrain /\ [][NextServe]_vars

----------------------------------------------------------------------------
(* SaveModel and LoadModel.  A file holds the JSON text of a model: every   *)
(* number as the decimal literal m * 10^e the encoder writes for it.        *)

Paths == {"model.json", "backup.json"}

\* values of time.Now()
Times == {1, 2}

RECURSIVE StripZeros(_, _)
StripZeros(m, e) ==
    IF m = 0 THEN [m |-> 0, e |-> 0]
    ELSE IF m % 10 = 0 THEN StripZeros(m \div 10, e + 1) ELSE [m |-> m, e |-> e]

\* json encoding of a float64: the shortest literal that reads back as x
EncodeNumber(x) == StripZeros(x, 0 - 4)

\* json decoding of a literal: the nearest float64
DecodeNumber(n) ==
    IF n.e + 4 >= 0 THEN Fl(n.m * 10 ^ (n.e + 4))
    ELSE Fl(RoundDiv(n.m, 10 ^ (0 - (n.e + 4))))

\* the struct SaveModel encodes
Encode(m, now) ==
    [ weights |-> [k \in DOMAIN m.weights |-> EncodeNumber(m.weights[k])],
      bias |-> EncodeNumber(m.bias),
      learning_rate |-> EncodeNumber(m.learningRate),
      trained |-> m.trained,
      version |-> m.version,
      saved_at |-> now ]

DecodeWithoutLearningRate(data) ==
    [ weights |-> [k \in DOMAIN data.weights |-> DecodeNumber(data.weights[k])],
      bias |-> DecodeNumber(data.bias),
      learningRate |-> 0,
      trained |-> data.trained,
      version |-> data.version ]

\* the model LoadModel builds from the decoded struct
Decode(data) ==
    [ weights |-> [k \in DOMAIN data.weights |-> DecodeNumber(data.weights[k])],
      bias |-> DecodeNumber(data.bias),
      learningRate |-> DecodeNumber(data.learning_rate),
      trained |-> data.trained,
      version |-> data.version ]

\* the model after the first batch of TrainModel on NewMLModel with the
\* examples {amount: 1}, {velocity: 1} and the labels 1, 0
ModelAfterFirstBatch ==
    BatchResult(NewMLModel, [k \in {"amount", "velocity"} |->
                               IF k = "amount" THEN 0 - 5000 ELSE 5000], 0, 2)

\* the models SaveModel is called on
StoreModels == ConstructedModels \cup {ModelAfterFirstBatch}

\* no model was saved to the file by this process
NotSaved == [ok |-> FALSE]

MissingFile == [state |-> "missing", of |-> NotSaved]
\* a file whose content does not decode
CorruptFile == [state |-> "corrupt", of |-> NotSaved]
\* a file that holds the encoding of the model m
BlobFile(m, now, of) == [state |-> "blob", data |-> Encode(m, now), of |-> of]

\* what a path can hold before the first call
InitialFiles == {MissingFile, CorruptFile, BlobFile(LoadPretrainedModel, 1, NotSaved)}

InitStore ==
    /\ EngineIdle
    /\ ServicesIdle
    /\ live \in StoreModels
    /\ files \in [Paths -> InitialFiles]
    /\ train = NoCall
    /\ pred = NoPredict
    /\ call = NoCall

\* m.SaveModel(modelPath): os.Create fails, or the encoder fails on the
\* created (and truncated) file, or the model is written
SaveModel ==
    /\ \E path \in Paths, now \in Times, outcome \in {"create fails", "encode fails", "saved"} :
          /\ files' =
                CASE outcome = "create fails" -> files
                  [] outcome = "encode fails" -> [files EXCEPT ![path] = CorruptFile]
                  [] outcome = "saved" ->
                       [files EXCEPT ![path] = BlobFile(live, now, [ok |-> TRUE, m |-> live])]
          /\ call' = [ op |-> "SaveModel", path |-> path, model |-> NoCall,
                       err |-> CASE outcome = "create fails" -> "failed to create model file"
                                 [] outcome = "encode fails" -> "failed to encode model"
                                 [] outcome = "saved" -> "nil" ]
    /\ UNCHANGED <<fraudvars, svcvars, live, train, pred>>

\* what LoadModel returns for a file: the model and the error
LoadResult(file) ==
    CASE file.state = "missing" -> [model |-> LoadPretrainedModel, err |-> "nil"]
      [] file.state = "corrupt" -> [model |-> NoCall, err |-> "failed to decode model"]
      [] file.state = "blob" -> [model |-> Decode(file.data), err |-> "nil"]

\* LoadModel(modelPath)
LoadModel ==
    /\ \E path \in Paths :
          call' = [ op |-> "LoadModel", path |-> path,
                    model |-> LoadResult(files[path]).model,
                    err |-> LoadResult(files[path]).err ]
    /\ UNCHANGED <<fraudvars, svcvars, live, files, train, pred>>

NextStore == SaveModel \/ LoadModel

SpecStore == InitStore /\ [][NextStore]_vars

----------------------------------------------------------------------------
(* EvaluateModel, one step per example of the test set.                     *)

\* examples in a test set
MaxTests == 3

\* an example and its label
TestExamples ==
    { [features |-> [k \in FeatureNames |-> v], label |-> l] : v \in {0, One}, l \in {0, One} }

RECURSIVE SeqsUpTo(_, _)
\* the sequences of at most n elements of S
SeqsUpTo(S, n) ==
    IF n = 0 THEN {<< >>}
    ELSE LET shorter == SeqsUpTo(S, n - 1)
         IN  shorter \cup {Append(q, x) : q \in {t \in shorter : Len(t) = n - 1}, x \in S}

TestSets == SeqsUpTo(TestExamples, MaxTests)

\* a float64 result: a number, or what a division by zero gives
Num(v) == [kind |-> "number", v |-> v]
NaN == [kind |-> "NaN", v |-> 0]
Inf == [kind |-> "Inf", v |-> 0]

\* float64 a / b of two counts, a >= 0
Quotient(a, b) ==
    IF b # 0 THEN Num(FDiv(a, b)) ELSE IF a = 0 THEN NaN ELSE Inf

threshold == 5000

\* the metrics EvaluateModel derives from the confusion matrix of n examples
Metrics(tp, fp, tn, fn, n) ==
    LET precision == IF tp + fp > 0 THEN FDiv(tp, tp + fp) ELSE 0
        recall == IF tp + fn > 0 THEN FDiv(tp, tp + fn) ELSE 0
        f1Score == IF FAdd(precision, recall) > 0
                   THEN FDiv(Fl(2 * FMul(precision, recall)), FAdd(precision, recall))
                   ELSE 0
    IN  [ accuracy |-> Quotient(tp + tn, n),
          precision |-> Num(precision),
          recall |-> Num(recall),
          f1_score |-> Num(f1Score),
          true_positives |-> tp, false_positives |-> fp,
          true_negatives |-> tn, false_negatives |-> fn ]

InitEvaluate ==
    /\ EngineIdle
    /\ ServicesIdle
    /\ live \in StoreModels
    /\ files = NoCall
    /\ train = NoCall
    /\ pred = NoPredict
    /\ \E tests \in TestSets :
          call = [ op |-> "EvaluateModel", pc |-> "loop", tests |-> tests, i |-> 0,
                   tp |-> 0, fp |-> 0, tn |-> 0, fn |-> 0, metrics |-> NoCall ]

\* one iteration of `for i, features := range testData`
EvaluateExample ==
    /\ call.op = "EvaluateModel"
    /\ call.pc = "loop"
    /\ call.i < Len(call.tests)
    /\ LET example == call.tests[call.i + 1]
       IN  \E o \in Orders(DOMAIN example.features) :
             LET prediction == Fl(RoundDiv(PredictIn(live, example.features, o), 100))
                 predicted == prediction > threshold
                 actual == example.label > threshold
             IN  call' = [call EXCEPT
                            !.i = call.i + 1,
                            !.tp = IF predicted /\ actual THEN call.tp + 1 ELSE call.tp,
                            !.fp = IF predicted /\ ~actual THEN call.fp + 1 ELSE call.fp,
                            !.tn = IF ~predicted /\ ~actual THEN call.tn + 1 ELSE call.tn,
                            !.fn = IF ~predicted /\ actual THEN call.fn + 1 ELSE call.fn]
    /\ UNCHANGED <<fraudvars, svcvars, live, files, train, pred>>

\* the metrics and the returned map
EvaluateReturn ==
    /\ call.op = "EvaluateModel"
    /\ call.pc = "loop"
    /\ call.i = Len(call.tests)
    /\ call' = [call EXCEPT
                  !.pc = "done",
                  !.metrics = Metrics(call.tp, call.fp, call.tn, call.fn, Len(call.tests))]
    /\ UNCHANGED <<fraudvars, svcvars, live, files, train, pred>>

NextEvaluate == EvaluateExample \/ EvaluateReturn

SpecEvaluate == InitEvaluate /\ [][NextEvaluate]_vars

----------------------------------------------------------------------------
(* TrainModel on three examples of one batch: the order rand.Perm puts them *)
(* in is the order their gradients are summed in.                           *)

\* three examples with the one feature "amount"
ShuffleSet ==
    [ data |-> << Vector({"amount"}, "amount", 20 * One),
                  Vector({"amount"}, "amount", 800),
                  Vector({"amount"}, "amount", 800) >>,
      labels |-> << 0, 0, 0 >> ]

\* TrainModel was called on the model m with ShuffleSet and has validated it
TrainEntered(m) ==
    [TrainIdle(m) EXCEPT !.data = ShuffleSet.data, !.labels = ShuffleSet.labels,
                         !.pc = "epoch"]

InitShuffle ==
    /\ EngineIdle
    /\ ServicesIdle
    /\ live \in ConstructedModels
    /\ files = NoCall
    /\ train = TrainEntered(live)
    /\ pred = NoPredict
    /\ call = NoCall

NextShuffle ==
    \/ TrainEpoch \/ TrainBatch \/ TrainSample
    \/ TrainUpdate \/ TrainUpdateWeight \/ TrainUpdateBias \/ TrainEnd

SpecShuffle == InitShuffle /\ [][NextShuffle]_vars

----------------------------------------------------------------------------
(* ExtractFeatures called on its own.  The function takes any request and   *)
(* any int: the binding `gt=0` of the amount is checked by the HTTP layer,  *)
(* not here.                                                                *)

ExtractAmounts == {0 - 5000, 0, 100, 5000, 10000, 15000}
ExtractCounts == {0 - 4, 0, 7, 20, 25}

InitFeatures ==
    /\ EngineIdle
    /\ ServicesIdle
    /\ live = NoCall
    /\ files = NoCall
    /\ train = NoCall
    /\ pred = NoPredict
    /\ \E a \in ExtractAmounts, c \in ExtractCounts,
          nl \in BOOLEAN, uh \in BOOLEAN, nd \in BOOLEAN :
          call = [ op |-> "ExtractFeatures", pc |-> "input", amount |-> a,
                   velocityCount |-> c, isNewLocation |-> nl, isUnusualHour |-> uh,
                   isNewDevice |-> nd, features |-> << >> ]

Extract ==
    /\ call.op = "ExtractFeatures"
    /\ call.pc = "input"
    /\ call' = [call EXCEPT
                  !.pc = "done",
                  !.features = ExtractFeatures(call.amount, call.velocityCount,
                                               call.isNewLocation, call.isUnusualHour,
                                               call.isNewDevice)]
    /\ UNCHANGED <<fraudvars, svcvars, live, files, train, pred>>

NextFeatures == Extract

SpecFeatures == InitFeatures /\ [][NextFeatures]_vars

----------------------------------------------------------------------------
(* Payment gateway (payment_service.go).  A card number is the sequence of  *)
(* the bytes of the Go string.                                              *)

\* the byte '0'
Zero == 48

\* the string of the decimal digits ds
Str(ds) == [i \in 1..Len(ds) |-> ds[i] + Zero]

\* bytes of the card numbers: '/', '0'..'9', ':'
CardBytes == (Zero - 1)..(Zero + 10)

\* length of the enumerated card numbers
MaxCardLen == 3

VisaCard == Str(<<4, 2, 4, 2, 4, 2, 4, 2, 4, 2, 4, 2, 4, 2, 4, 2>>)
MasterCard == Str(<<5, 5, 5, 5, 5, 5, 5, 5, 5, 5, 5, 5, 4, 4, 4, 4>>)
AmexCard == Str(<<3, 7, 8, 2, 8, 2, 2, 4, 6, 3, 1, 0, 0, 0, 5>>)
InvalidCard == Str(<<1, 2, 3, 4, 5, 6, 7, 8, 9, 0, 1, 2, 3, 4, 5, 6>>)
\* a Visa number whose check digit is wrong
BadVisaCard == Str(<<4, 2, 4, 2, 4, 2, 4, 2, 4, 2, 4, 2, 4, 2, 4, 1>>)

TestCards == {VisaCard, MasterCard, AmexCard, InvalidCard, BadVisaCard}

RECURSIVE LuhnSum(_, _, _)
\* the loop of ValidateLuhnChecksum from index i (0-based) on
LuhnSum(cardNumber, i, parity) ==
    IF i >= Len(cardNumber) THEN 0
    ELSE LET d == cardNumber[i + 1] - Zero
             e == IF i % 2 = parity
                  THEN (IF d * 2 > 9 THEN d * 2 - 9 ELSE d * 2)
                  ELSE d
         IN  e + LuhnSum(cardNumber, i + 1, parity)

ValidateLuhnChecksum(cardNumber) ==
    LuhnSum(cardNumber, 0, Len(cardNumber) % 2) % 10 = 0

RECURSIVE StrLessEq(_, _)
\* a <= b of two Go strings
StrLessEq(a, b) ==
    IF a = << >> THEN TRUE
    ELSE IF b = << >> THEN FALSE
    ELSE IF Head(a) # Head(b) THEN Head(a) < Head(b)
    ELSE StrLessEq(Tail(a), Tail(b))

\* lo <= prefix && prefix <= hi
Between(prefix, lo, hi) == StrLessEq(Str(lo), prefix) /\ StrLessEq(prefix, Str(hi))

DetectCardNetworkFirstDigit(cardNumber) ==
    IF Len(cardNumber) < 2 THEN ""
    ELSE LET first == SubSeq(cardNumber, 1, 1)
         IN  CASE first = Str(<<3>>) -> "amex"
               [] first = Str(<<4>>) -> "visa"
               [] first = Str(<<5>>) \/ first = Str(<<2>>) -> "mastercard"
               [] first = Str(<<6>>) -> "discover"
               [] OTHER -> ""

DetectCardNetwork(cardNumber) ==
    IF Len(cardNumber) < 2 THEN ""
    ELSE LET prefix == SubSeq(cardNumber, 1, 2)
         IN  CASE prefix = Str(<<3, 4>>) \/ prefix = Str(<<3, 7>>) -> "amex"
               [] Between(prefix, <<4, 0>>, <<4, 9>>) -> "visa"
               [] Between(prefix, <<5, 1>>, <<5, 5>>) -> "mastercard"
               [] Between(prefix, <<2, 2>>, <<2, 7>>) -> "mastercard"
               [] Between(prefix, <<6, 0>>, <<6, 5>>) -> "discover"
               [] OTHER -> ""

PaymentStatusPending == "pending"
PaymentStatusRequiresAction == "requires_action"
PaymentStatusProcessing == "processing"
PaymentStatusSucceeded == "succeeded"
PaymentStatusFailed == "failed"
PaymentStatusCancelled == "cancelled"

\* the goroutines that serve requests
Clients == {1, 2}

\* CreatePayment calls of one client
MaxCreateCalls == 2

IdempotencyKeys == {"", "k1"}

\* uuid.New(): the n-th id client c generates
NewID(c, n) == [client |-> c, n |-> n]
NoID == [client |-> 0, n |-> 0]

\* the models.Payment literal of CreatePayment
NewPayment(id, r) ==
    [ ID |-> id, Status |-> PaymentStatusPending,
      CardLast4 |-> SubSeq(r.CardNumber, Len(r.CardNumber) - 3, Len(r.CardNumber)),
      CardNetwork |-> DetectCardNetwork(r.CardNumber),
      IdempotencyKey |-> r.IdempotencyKey,
      StripePaymentIntentID |-> NoID, Requires3DS |-> FALSE ]

\* a payment created, stored and cached by an earlier call with the key k1
EarlierPayment ==
    [ NewPayment(NewID(0, 1), [CardNumber |-> VisaCard, IdempotencyKey |-> "k1"])
        EXCEPT !.StripePaymentIntentID = NewID(0, 1) ]

\* the Redis entry of an idempotency key
NoEntry == [present |-> FALSE]
Entry(payment) == [present |-> TRUE, payment |-> payment]

\* the card checks of a call: not made yet
Unchecked == [luhn |-> "none", network |-> "none"]

\* the client c with the request r, before its first call
ClientIdle(c, r) ==
    [ pc |-> "idle", req |-> r, n |-> 0, checked |-> Unchecked,
      payment |-> NoCall, rets |-> << >> ]

\* a goroutine that serves no request
ClientOff ==
    [ pc |-> "off", req |-> NoCall, n |-> 0, checked |-> Unchecked,
      payment |-> NoCall, rets |-> << >> ]

\* the stores before the first call: empty, or holding EarlierPayment
StoresFresh ==
    /\ payments = {}
    /\ idem = [k \in IdempotencyKeys |-> NoEntry]
    /\ intents = {}

StoresSeeded ==
    /\ payments = {EarlierPayment}
    /\ idem = [k \in IdempotencyKeys |-> IF k = "k1" THEN Entry(EarlierPayment) ELSE NoEntry]
    /\ intents = {[ID |-> NewID(0, 1), key |-> "k1", status |-> "requires_payment_method"]}

\* the payment gateway leaves the other services alone
PayFrame == UNCHANGED <<fraudvars, mlvars, ledgervars, fxvars>>

\* what a call returned
Returns(c, payment, err) ==
    [calls EXCEPT ![c].pc = "idle", ![c].payment = NoCall,
                  ![c].rets = Append(@, [payment |-> payment, err |-> err])]

\* entry of CreatePayment
CreateBegin(c) ==
    /\ calls[c].pc = "idle"
    /\ calls[c].n < MaxCreateCalls
    /\ calls' = [calls EXCEPT ![c].pc = "lookup", ![c].n = @ + 1,
                               ![c].checked = Unchecked]
    /\ UNCHANGED <<payments, idem, intents>>
    /\ PayFrame

\* "Check idempotency key": a Redis error or a missing entry is a miss
CreateLookup(c) ==
    /\ calls[c].pc = "lookup"
    /\ LET key == calls[c].req.IdempotencyKey
       IN  \E hit \in BOOLEAN :
             /\ hit => (key # "" /\ idem[key].present)
             /\ calls' = IF hit THEN Returns(c, idem[key].payment, "nil")
                         ELSE [calls EXCEPT ![c].pc = "validate"]
    /\ UNCHANGED <<payments, idem, intents>>
    /\ PayFrame

\* "Validate card using Luhn algorithm"
CreateValidate(c) ==
    /\ calls[c].pc = "validate"
    /\ LET valid == ValidateLuhnChecksum(calls[c].req.CardNumber)
           checked == [calls EXCEPT ![c].checked.luhn = IF valid THEN "true" ELSE "false"]
       IN  calls' = IF valid
                    THEN [checked EXCEPT ![c].pc = "network"]
                    ELSE [Returns(c, NoCall, "invalid card number")
                            EXCEPT ![c].checked = checked[c].checked]
    /\ UNCHANGED <<payments, idem, intents>>
    /\ PayFrame

\* "Detect card network" and the payment record: CardNumber[len-4:] of a
\* number shorter than four bytes panics
CreateDetect(c) ==
    /\ calls[c].pc = "network"
    /\ LET r == calls[c].req
           cardNetwork == DetectCardNetwork(r.CardNumber)
           checked == [calls[c].checked EXCEPT !.network = cardNetwork]
       IN  calls' =
             IF cardNetwork = ""
             THEN [Returns(c, NoCall, "unsupported card network") EXCEPT ![c].checked = checked]
             ELSE IF Len(r.CardNumber) < 4
             THEN [Returns(c, NoCall, "panic: slice bounds out of range")
                     EXCEPT ![c].checked = checked]
             ELSE [calls EXCEPT ![c].pc = "stripe", ![c].checked = checked,
                                ![c].payment = NewPayment(NewID(c, calls[c].n), r)]
    /\ UNCHANGED <<payments, idem, intents>>
    /\ PayFrame

\* r.db.ExecContext(INSERT INTO payments ...): idempotency_key is UNIQUE
Insertable(payment) ==
    \A row \in payments : row.IdempotencyKey # payment.IdempotencyKey

\* "Process with Stripe"
CreateStripe(c) ==
    /\ calls[c].pc = "stripe"
    /\ LET payment == calls[c].payment
       IN  \E outcome \in {"error", "requires_payment_method", "requires_action"},
              dbok \in BOOLEAN :
             IF outcome = "error"
             THEN LET failed == [payment EXCEPT !.Status = PaymentStatusFailed]
                  IN  /\ payments' = IF dbok /\ Insertable(failed)
                                      THEN payments \cup {failed} ELSE payments
                      /\ calls' = Returns(c, NoCall, "stripe payment failed")
                      /\ UNCHANGED <<idem, intents>>
             ELSE /\ dbok
                  /\ intents' = intents \cup
                        {[ID |-> payment.ID, key |-> payment.IdempotencyKey, status |-> outcome]}
                  /\ calls' = [calls EXCEPT
                        ![c].pc = "save",
                        ![c].payment =
                           [payment EXCEPT
                              !.StripePaymentIntentID = payment.ID,
                              !.Requires3DS = (outcome = "requires_action"),
                              !.Status = IF outcome = "requires_action"
                                         THEN PaymentStatusRequiresAction ELSE @]]
                  /\ UNCHANGED <<payments, idem>>
    /\ PayFrame

\* "Save to database"
CreateSave(c) ==
    /\ calls[c].pc = "save"
    /\ \E dbok \in BOOLEAN :
          IF dbok /\ Insertable(calls[c].payment)
          THEN /\ payments' = payments \cup {calls[c].payment}
               /\ calls' = [calls EXCEPT ![c].pc = "cache"]
          ELSE /\ calls' = Returns(c, NoCall, "failed to save payment")
               /\ UNCHANGED payments
    /\ UNCHANGED <<idem, intents>>
    /\ PayFrame

\* "Cache for idempotency" (the result of Set is dropped), event, return
CreateCache(c) ==
    /\ calls[c].pc = "cache"
    /\ LET payment == calls[c].payment
           key == payment.IdempotencyKey
       IN  /\ \E stored \in BOOLEAN :
                 idem' = IF key # "" /\ stored
                         THEN [idem EXCEPT ![key] = Entry(payment)] ELSE idem
           /\ calls' = Returns(c, payment, "nil")
    /\ UNCHANGED <<payments, intents>>
    /\ PayFrame

CreatePayment(c) ==
    \/ CreateBegin(c) \/ CreateLookup(c) \/ CreateValidate(c) \/ CreateDetect(c)
    \/ CreateStripe(c) \/ CreateSave(c) \/ CreateCache(c)

NextCreate == \E c \in Clients : CreatePayment(c)

\* the card numbers of the requests
CardNumbers == SeqsUpTo(CardBytes, MaxCardLen) \cup TestCards

\* one client, any card number
InitCards ==
    /\ EngineIdle
    /\ ModelIdle
    /\ StoresFresh \/ StoresSeeded
    /\ \E card \in CardNumbers, key \in IdempotencyKeys :
          calls = [c \in Clients |->
                     IF c = 1 THEN ClientIdle(c, [CardNumber |-> card, IdempotencyKey |-> key])
                     ELSE ClientOff]
    /\ ledger = NoCall /\ tx = NoCall /\ rates = NoCall /\ fx = NoCall

SpecCards == InitCards /\ [][NextCreate]_vars

\* two clients of the gateway, each with a request it may send again
InitPayment ==
    /\ EngineIdle
    /\ ModelIdle
    /\ StoresFresh \/ StoresSeeded
    /\ \E k1 \in IdempotencyKeys, k2 \in IdempotencyKeys :
          calls = [c \in Clients |->
                     ClientIdle(c, [CardNumber |-> VisaCard,
                                    IdempotencyKey |-> IF c = 1 THEN k1 ELSE k2])]
    /\ ledger = NoCall /\ tx = NoCall /\ rates = NoCall /\ fx = NoCall

SpecPayment == InitPayment /\ [][NextCreate]_vars

----------------------------------------------------------------------------
(* CancelPayment.  The payments table holds one payment in any status and   *)
(* Stripe holds its intent; two clients cancel by id.                       *)

PaymentStatuses ==
    { PaymentStatusPending, PaymentStatusProcessing, PaymentStatusRequiresAction,
      PaymentStatusSucceeded, PaymentStatusFailed, PaymentStatusCancelled }

\* the status of the intent of a payment of the given status; a payment that
\* failed at createStripePaymentIntent has none
IntentStatus(status) ==
    CASE status = PaymentStatusPending -> "requires_payment_method"
      [] status = PaymentStatusRequiresAction -> "requires_action"
      [] status = PaymentStatusProcessing -> "processing"
      [] status = PaymentStatusSucceeded -> "succeeded"
      [] status = PaymentStatusCancelled -> "canceled"
      [] OTHER -> "none"

\* the intent statuses in which Stripe accepts a cancellation
StripeCancellable == {"requires_payment_method", "requires_action"}

\* the id of no stored payment
UnknownID == NewID(0, 2)

\* the nil *models.Payment
NilPayment == [nil |-> TRUE]

\* cancellations of one client
MaxCancelCalls == 2

\* the client c cancels the payment id; stored is the table as it was set up
CancelIdle(id, stored) ==
    [ pc |-> "idle", id |-> id, n |-> 0, payment |-> NoCall, stored |-> stored,
      rets |-> << >> ]

\* what a CancelPayment call returned and the status it had read
CancelReturns(c, status, err) ==
    [calls EXCEPT ![c].pc = "idle", ![c].payment = NoCall,
                  ![c].rets = Append(@, [status |-> status, err |-> err])]

\* entry of CancelPayment
CancelBegin(c) ==
    /\ calls[c].pc = "idle"
    /\ calls[c].n < MaxCancelCalls
    /\ calls' = [calls EXCEPT ![c].pc = "get", ![c].n = @ + 1]
    /\ UNCHANGED <<payments, idem, intents>>
    /\ PayFrame

\* s.repo.GetByID: sql.ErrNoRows gives (nil, nil)
CancelGet(c) ==
    /\ calls[c].pc = "get"
    /\ \E dbok \in BOOLEAN :
          calls' =
            IF ~dbok THEN CancelReturns(c, "unread", "sql error")
            ELSE IF \E row \in payments : row.ID = calls[c].id
            THEN [calls EXCEPT ![c].pc = "check",
                    ![c].payment = CHOOSE row \in payments : row.ID = calls[c].id]
            ELSE [calls EXCEPT ![c].pc = "check", ![c].payment = NilPayment]
    /\ UNCHANGED <<payments, idem, intents>>
    /\ PayFrame

\* the test of payment.Status: payment is dereferenced
CancelCheck(c) ==
    /\ calls[c].pc = "check"
    /\ LET payment == calls[c].payment
       IN  calls' =
             IF payment = NilPayment
             THEN CancelReturns(c, "unknown", "panic: nil pointer dereference")
             ELSE IF payment.Status # PaymentStatusPending
                     /\ payment.Status # PaymentStatusRequiresAction
             THEN CancelReturns(c, payment.Status, "payment cannot be cancelled")
             ELSE [calls EXCEPT ![c].pc = "stripe"]
    /\ UNCHANGED <<payments, idem, intents>>
    /\ PayFrame

\* "Cancel with Stripe"
CancelStripe(c) ==
    /\ calls[c].pc = "stripe"
    /\ LET payment == calls[c].payment
       IN  \E reached \in BOOLEAN :
             IF reached /\ \E i \in intents : i.ID = payment.StripePaymentIntentID
                                               /\ i.status \in StripeCancellable
             THEN /\ intents' = {IF i.ID = payment.StripePaymentIntentID
                                   THEN [i EXCEPT !.status = "canceled"] ELSE i : i \in intents}
                  /\ calls' = [calls EXCEPT ![c].pc = "update"]
             ELSE /\ calls' = CancelReturns(c, payment.Status, "stripe error")
                  /\ UNCHANGED intents
    /\ UNCHANGED <<payments, idem>>
    /\ PayFrame

\* payment.Status = cancelled; s.repo.Update; the event; return nil
CancelUpdate(c) ==
    /\ calls[c].pc = "update"
    /\ LET payment == calls[c].payment
       IN  \E dbok \in BOOLEAN :
             IF dbok
             THEN /\ payments' = {IF row.ID = payment.ID
                                    THEN [row EXCEPT !.Status = PaymentStatusCancelled]
                                    ELSE row : row \in payments}
                  /\ calls' = CancelReturns(c, payment.Status, "nil")
             ELSE /\ calls' = CancelReturns(c, payment.Status, "sql error")
                  /\ UNCHANGED payments
    /\ UNCHANGED <<idem, intents>>
    /\ PayFrame

CancelPayment(c) ==
    \/ CancelBegin(c) \/ CancelGet(c) \/ CancelCheck(c)
    \/ CancelStripe(c) \/ CancelUpdate(c)

NextCancel == \E c \in Clients : CancelPayment(c)

\* the stored payment with the given status, and its intent
StoredPayment(status) ==
    [EarlierPayment EXCEPT
       !.Status = status,
       !.StripePaymentIntentID = IF IntentStatus(status) = "none" THEN NoID ELSE @]

InitCancel ==
    /\ EngineIdle
    /\ ModelIdle
    /\ ledger = NoCall /\ tx = NoCall /\ rates = NoCall /\ fx = NoCall
    /\ \E status \in PaymentStatuses :
          /\ payments = {StoredPayment(status)}
          /\ idem = [k \in IdempotencyKeys |->
                       IF k = "k1" THEN Entry(StoredPayment(status)) ELSE NoEntry]
          /\ intents = IF IntentStatus(status) = "none" THEN {}
                       ELSE {[ID |-> EarlierPayment.StripePaymentIntentID, key |-> "k1",
                              status |-> IntentStatus(status)]}
          /\ \E id1 \in {EarlierPayment.ID, UnknownID}, id2 \in {EarlierPayment.ID, UnknownID} :
                calls = [c \in Clients |->
                           CancelIdle(IF c = 1 THEN id1 ELSE id2, {StoredPayment(status)})]

SpecCancel == InitCancel /\ [][NextCancel]_vars

----------------------------------------------------------------------------
(* Transaction ledger (ledger_service.go, ledger_repository.go).  An amount *)
(* is an integer in units of 0.00001; the column ledger_entries.amount is   *)
(* DECIMAL(19, 4).                                                          *)

EntryTypeDebit == "debit"
EntryTypeCredit == "credit"
TxnStatusPending == "pending"
TxnStatusCompleted == "completed"

\* the amounts of the entries of a request: 0.00005, 0.0001, 0.0002
LedgerAmounts == {5, 10, 20}

\* entries of one request
MaxEntries == 3

\* CreateDoubleEntry calls
MaxLedgerCalls == 2

EntryRequests == [Type : {EntryTypeDebit, EntryTypeCredit}, Amount : LedgerAmounts]

LedgerRequests == SeqsUpTo(EntryRequests, MaxEntries)

\* a float64 amount stored in a DECIMAL(19, 4) column: rounded to 4 decimals
ToDecimal(amount) == RoundDiv(amount, 10) * 10

RECURSIVE Totals(_, _, _)
\* the loop "Validate that debits equal credits" over the entries from i on
Totals(entries, i, totals) ==
    IF i > Len(entries) THEN totals
    ELSE Totals(entries, i + 1,
                IF entries[i].Type = EntryTypeDebit
                THEN [totals EXCEPT !.totalDebits = FAdd(@, entries[i].Amount)]
                ELSE [totals EXCEPT !.totalCredits = FAdd(@, entries[i].Amount)])

\* the rows of the two tables
NoRows == [transactions |-> {}, entries |-> {}]

\* no call of CreateDoubleEntry is in progress; entries is the request the
\* client sends
LedgerIdle(entries) ==
    [ pc |-> "idle", req |-> entries, n |-> 0, txnID |-> 0, i |-> 0,
      staged |-> NoRows, before |-> NoRows, rets |-> << >> ]

LedgerFrame == UNCHANGED <<fraudvars, mlvars, payvars, fxvars>>

\* CreateDoubleEntry returns: the deferred Rollback drops what is staged
LedgerReturns(err) ==
    [tx EXCEPT !.pc = "idle", !.staged = NoRows,
               !.rets = Append(@, [txnID |-> IF err = "nil" THEN tx.txnID ELSE 0,
                                   err |-> err])]

\* entry of CreateDoubleEntry
DoubleEntryBegin ==
    /\ tx.pc = "idle"
    /\ tx.n < MaxLedgerCalls
    /\ tx' = [tx EXCEPT !.pc = "validate", !.n = @ + 1, !.before = ledger]
    /\ UNCHANGED ledger
    /\ LedgerFrame

\* "Validate that debits equal credits", "Create transaction", "Create entries"
DoubleEntryValidate ==
    /\ tx.pc = "validate"
    /\ LET totals == Totals(tx.req, 1, [totalDebits |-> 0, totalCredits |-> 0])
       IN  tx' = IF totals.totalDebits # totals.totalCredits
                 THEN LedgerReturns("debits must equal credits")
                 ELSE [tx EXCEPT !.pc = "begin", !.txnID = tx.n]
    /\ UNCHANGED ledger
    /\ LedgerFrame

\* r.db.BeginTx
RepoBeginTx ==
    /\ tx.pc = "begin"
    /\ \E ok \in BOOLEAN :
          tx' = IF ok THEN [tx EXCEPT !.pc = "insert_txn", !.staged = NoRows]
                ELSE LedgerReturns("failed to create ledger transaction")
    /\ UNCHANGED ledger
    /\ LedgerFrame

\* "Insert transaction"
RepoInsertTransaction ==
    /\ tx.pc = "insert_txn"
    /\ \E ok \in BOOLEAN :
          tx' = IF ok
                THEN [tx EXCEPT !.pc = "insert_entries", !.i = 1,
                                !.staged.transactions =
                                    {[ID |-> tx.txnID, Status |-> TxnStatusPending]}]
                ELSE LedgerReturns("failed to create ledger transaction")
    /\ UNCHANGED ledger
    /\ LedgerFrame

\* "Insert entries": one iteration of the loop
RepoInsertEntry ==
    /\ tx.pc = "insert_entries"
    /\ tx.i <= Len(tx.req)
    /\ \E ok \in BOOLEAN :
          tx' = IF ok
                THEN [tx EXCEPT !.i = @ + 1,
                                !.staged.entries = @ \cup
                                    {[ ID |-> <<tx.txnID, tx.i>>, TransactionID |-> tx.txnID,
                                       Type |-> tx.req[tx.i].Type,
                                       Amount |-> ToDecimal(tx.req[tx.i].Amount) ]}]
                ELSE LedgerReturns("failed to create ledger transaction")
    /\ UNCHANGED ledger
    /\ LedgerFrame

\* return tx.Commit()
RepoCommit ==
    /\ tx.pc = "insert_entries"
    /\ tx.i > Len(tx.req)
    /\ \E ok \in BOOLEAN :
          IF ok
          THEN /\ ledger' = [transactions |-> ledger.transactions \cup tx.staged.transactions,
                             entries |-> ledger.entries \cup tx.staged.entries]
               /\ tx' = [tx EXCEPT !.pc = "status", !.staged = NoRows]
          ELSE /\ tx' = LedgerReturns("failed to create ledger transaction")
               /\ UNCHANGED ledger
    /\ LedgerFrame

\* "Update transaction status" (a failure is logged) and return transaction, nil
DoubleEntryUpdateStatus ==
    /\ tx.pc = "status"
    /\ \E ok \in BOOLEAN :
          ledger' = IF ok
                    THEN [ledger EXCEPT !.transactions =
                            {IF t.ID = tx.txnID THEN [t EXCEPT !.Status = TxnStatusCompleted]
                             ELSE t : t \in ledger.transactions}]
                    ELSE ledger
    /\ tx' = LedgerReturns("nil")
    /\ LedgerFrame

CreateDoubleEntry ==
    \/ DoubleEntryBegin \/ DoubleEntryValidate \/ RepoBeginTx \/ RepoInsertTransaction
    \/ RepoInsertEntry \/ RepoCommit \/ DoubleEntryUpdateStatus

NextLedger == CreateDoubleEntry

InitLedger ==
    /\ EngineIdle
    /\ ModelIdle
    /\ payments = NoCall /\ idem = NoCall /\ intents = NoCall /\ calls = NoCall
    /\ rates = NoCall /\ fx = NoCall
    /\ ledger = NoRows
    /\ \E entries \in LedgerRequests : tx = LedgerIdle(entries)

SpecLedger == InitLedger /\ [][NextLedger]_vars

----------------------------------------------------------------------------
(* Currency conversion (exchange_service.go, rate_repository.go): Convert   *)
(* and GetRate for one pair of currencies.                                  *)

\* the conversion rates the API can answer with: 0.9 and 1.1
APIRates == {9000, 11000}

\* the amounts of the conversion requests: 1 and 2
ConvertAmounts == {One, 2 * One}

\* Convert calls
MaxConvertCalls == 2

\* the nil *models.ExchangeRate
NilRate == [nil |-> TRUE]

\* a rate of the pair, as the API reported it at the time given
ExchangeRate(rate, timestamp) == [Rate |-> rate, Timestamp |-> timestamp]

\* the row GetLatestRate selects: ORDER BY timestamp DESC LIMIT 1
LatestRow(rows) == CHOOSE r \in rows : \A q \in rows : q.Timestamp <= r.Timestamp

\* no Convert call is in progress
ConvertIdle(amount) ==
    [ pc |-> "idle", n |-> 0, amount |-> amount, rate |-> NilRate,
      got |-> << >>, rets |-> << >> ]

FxFrame == UNCHANGED <<fraudvars, mlvars, payvars, ledgervars>>

\* GetRate returns (rate, err) to Convert
GetRateReturns(rate, err) ==
    [fx EXCEPT !.pc = "convert", !.rate = rate,
               !.got = Append(@, [rate |-> rate, err |-> err])]

\* entry of Convert: it calls GetRate
ConvertBegin ==
    /\ fx.pc = "idle"
    /\ fx.n < MaxConvertCalls
    /\ fx' = [fx EXCEPT !.pc = "cache", !.n = @ + 1, !.rate = NilRate]
    /\ UNCHANGED rates
    /\ FxFrame

\* "Check cache first": a Redis error, an expired or a missing entry is a miss
GetRateCache ==
    /\ fx.pc = "cache"
    /\ \E hit \in BOOLEAN :
          /\ hit => rates.cache.present
          /\ fx' = IF hit THEN GetRateReturns(rates.cache.payment, "nil")
                   ELSE [fx EXCEPT !.pc = "fetch"]
    /\ UNCHANGED rates
    /\ FxFrame

\* "Fetch from API"
GetRateFetch ==
    /\ fx.pc = "fetch"
    /\ \E ok \in BOOLEAN, r \in APIRates :
          fx' = IF ok THEN [fx EXCEPT !.pc = "store", !.rate = ExchangeRate(r, fx.n)]
                ELSE [fx EXCEPT !.pc = "fallback"]
    /\ UNCHANGED rates
    /\ FxFrame

\* "Try to get from database as fallback": GetLatestRate gives (nil, nil) when
\* no row matches
GetRateFallback ==
    /\ fx.pc = "fallback"
    /\ \E dbok \in BOOLEAN :
          fx' = IF ~dbok THEN GetRateReturns(NilRate, "API request failed")
                ELSE IF rates.db = {} THEN GetRateReturns(NilRate, "nil")
                ELSE GetRateReturns(LatestRow(rates.db), "nil")
    /\ UNCHANGED rates
    /\ FxFrame

\* "Cache the rate", "Save to database": both results are dropped or logged
GetRateStore ==
    /\ fx.pc = "store"
    /\ \E cached \in BOOLEAN, saved \in BOOLEAN :
          rates' = [ cache |-> IF cached THEN Entry(fx.rate) ELSE rates.cache,
                     db |-> IF saved THEN rates.db \cup {fx.rate} ELSE rates.db ]
    /\ fx' = GetRateReturns(fx.rate, "nil")
    /\ FxFrame

\* the rest of Convert: the error of GetRate, or rate.Rate is read
ConvertCompute ==
    /\ fx.pc = "convert"
    /\ LET r == fx.got[Len(fx.got)]
           convertedAmount == FMul(fx.amount, r.rate.Rate)
           fee == FMul(convertedAmount, 50)
       IN  fx' = [fx EXCEPT
                    !.pc = "idle",
                    !.rets = Append(@,
                       IF r.err # "nil"
                       THEN [response |-> NoCall, err |-> "failed to get exchange rate"]
                       ELSE IF r.rate = NilRate
                       THEN [response |-> NoCall, err |-> "panic: nil pointer dereference"]
                       ELSE [response |-> [ConvertedAmount |-> FSub(convertedAmount, fee),
                                           ExchangeRate |-> r.rate.Rate, Fee |-> fee],
                             err |-> "nil"])]
    /\ UNCHANGED rates
    /\ FxFrame

Convert ==
    \/ ConvertBegin \/ GetRateCache \/ GetRateFetch \/ GetRateFallback
    \/ GetRateStore \/ ConvertCompute

NextConvert == Convert

\* the table exchange_rates is empty or holds an older rate; nothing is cached
InitConvert ==
    /\ EngineIdle
    /\ ModelIdle
    /\ payments = NoCall /\ idem = NoCall /\ intents = NoCall /\ calls = NoCall
    /\ ledger = NoCall /\ tx = NoCall
    /\ \E rows \in {{}, {ExchangeRate(One, 0)}} : rates = [cache |-> NoEntry, db |-> rows]
    /\ \E amount \in ConvertAmounts : fx = ConvertIdle(amount)

SpecConvert == InitConvert /\ [][NextConvert]_vars

----------------------------------------------------------------------------
(* Vocabulary of the properties *)

Returned == ret.returned

RiskLevels == {RiskLevelLow, RiskLevelMedium, RiskLevelHigh}
Decisions == {DecisionApprove, DecisionReview, DecisionBlock}

FlagSet(r) == {r.Flags[k] : k \in 1..Len(r.Flags)}
RuleNames(r) == [k \in 1..Len(r.Rules) |-> r.Rules[k].RuleName]

\* whether the historical lookup of evaluator `name` returned an error
LookupFailed(name) ==
    CASE name = "velocity_check" -> signals.velocity.asked /\ signals.velocity.err
      [] name = "geolocation_check" -> signals.geo.asked /\ signals.geo.err
      [] name = "blacklist_check" -> signals.blacklist.asked /\ signals.blacklist.err
      [] name = "device_fingerprint" -> signals.device.asked /\ signals.device.err
      [] OTHER -> FALSE

LookupSucceeded(name) == ~LookupFailed(name)

FailedRules == {name \in {rules[k] : k \in 1..Len(rules)} : LookupFailed(name)}

BlacklistTriggered ==
    signals.blacklist.asked /\ ~signals.blacklist.err /\ signals.blacklist.val

\* the flags of the table of evaluators (spec 4.2) for the request and the
\* recorded answers; an evaluator whose lookup failed raises none
TableFlags(name) ==
    CASE name = "velocity_check" ->
           IF ~signals.velocity.asked \/ signals.velocity.err THEN {}
           ELSE IF signals.velocity.val > 10 THEN {"high_velocity"}
           ELSE IF signals.velocity.val > 5 THEN {"moderate_velocity"}
           ELSE {}
      [] name = "amount_threshold" ->
           IF req.Amount > 10000 THEN {"large_amount"}
           ELSE IF req.Amount > 5000 THEN {"elevated_amount"}
           ELSE {}
      [] name = "geolocation_check" ->
           IF ~signals.geo.asked \/ signals.geo.err THEN {}
           ELSE (IF signals.geo.val # {} /\ req.Country \notin signals.geo.val
                 THEN {"new_location"} ELSE {})
                \cup (IF req.Country \in {"XX", "YY"}
                      THEN {"high_risk_country"} ELSE {})
      [] name = "blacklist_check" ->
           IF BlacklistTriggered THEN {"blacklisted"} ELSE {}
      [] name = "time_pattern" ->
           IF signals.hour.asked /\ signals.hour.val \in 2..5
           THEN {"unusual_hour"} ELSE {}
      [] name = "device_fingerprint" ->
           IF req.DeviceFingerprint # "" /\ signals.device.asked
              /\ ~signals.device.err /\ ~signals.device.val
           THEN {"new_device"} ELSE {}

OtherEvaluators(name) == {rules[k] : k \in 1..Len(rules)} \ {name}

RECURSIVE SumTriggered(_)
SumTriggered(rs) ==
    IF rs = << >> THEN 0
    ELSE (IF Head(rs).Triggered THEN Head(rs).Score ELSE 0) + SumTriggered(Tail(rs))

\* the evaluators of seq applied in order to response r, on the recorded answers
RECURSIVE ApplyRules(_, _)
ApplyRules(seq, r) ==
    IF seq = << >> THEN r
    ELSE ApplyRules(Tail(seq), EvalRule(Head(seq), req, signals, r).resp)

\* the decision policy as the specification states it (4.4)
PolicyTable(s) ==
    IF s >= 90 THEN <<"high", "block">>
    ELSE IF s >= 70 THEN <<"high", "review">>
    ELSE IF s >= 40 THEN <<"medium", "review">>
    ELSE <<"low", "approve">>

LevelRank(l) == CASE l = "low" -> 1 [] l = "medium" -> 2 [] l = "high" -> 3
DecisionRank(d) == CASE d = "approve" -> 1 [] d = "review" -> 2 [] d = "block" -> 3

----------------------------------------------------------------------------
(* C1: the score of the returned response, and of every result handed to   *)
(* the Result Sink, lies in 0..100.                                        *)
ScoreWithinBounds ==
    /\ Returned => ret.resp.Score \in 0..100
    /\ \A k \in 1..Len(sink) : sink[k].result.Score \in 0..100

(* C2: when the blacklist rule triggered, the returned score is exactly    *)
(* 100 and the decision is block.                                          *)
BlacklistForcesHundredAndBlock ==
    (Returned /\ BlacklistTriggered) =>
        (ret.resp.Score = 100 /\ ret.resp.Decision = DecisionBlock)

(* C3: over the scores 0..100 the mapping score -> risk level -> decision   *)
(* is total (every score gets one level and one decision) and monotonic:   *)
(* a higher score never gets a lower level or a more lenient decision.     *)
PolicyTotalAndMonotonic ==
    (probe.state = "classified" /\ probe.s1 \in 0..100 /\ probe.s2 \in 0..100) =>
        /\ probe.l1 \in RiskLevels /\ probe.d1 \in Decisions
        /\ probe.l2 \in RiskLevels /\ probe.d2 \in Decisions
        /\ probe.s1 = probe.s2 => (probe.l1 = probe.l2 /\ probe.d1 = probe.d2)
        /\ probe.s1 <= probe.s2 =>
              /\ LevelRank(probe.l1) <= LevelRank(probe.l2)
              /\ DecisionRank(probe.d1) <= DecisionRank(probe.d2)

PolicyMonotonicWitness ==
    /\ probe.state = "classified"
    /\ probe.s1 = 39 /\ probe.l1 = RiskLevelLow /\ probe.d1 = DecisionApprove
    /\ probe.s2 = 90 /\ probe.l2 = RiskLevelHigh /\ probe.d2 = DecisionBlock

\* calculateRiskLevel and makeDecision agree with the stated policy on every
\* probed score
PolicyOnEveryScore ==
    \A s \in ProbeScores :
        <<calculateRiskLevel(s), makeDecision(calculateRiskLevel(s), s)>> = PolicyTable(s)

(* C4: score >= 90 gives (high, block), 70..89 (high, review), 40..69       *)
(* (medium, review), below 40 (low, approve); the level and the decision   *)
(* of the returned response are that policy applied to its own score.      *)
DecisionPolicyApplied ==
    /\ PolicyOnEveryScore
    /\ Returned =>
          <<ret.resp.RiskLevel, ret.resp.Decision>> = PolicyTable(ret.resp.Score)

DecisionPolicyWitness ==
    /\ Returned
    /\ ret.resp.Score = 70
    /\ ret.resp.RiskLevel = RiskLevelHigh
    /\ ret.resp.Decision = DecisionReview

(* C5: when the blacklist rule did not trigger, the returned score is the   *)
(* sum of the Score fields of the triggered RuleResults of the response.   *)
ScoreIsSumOfTriggeredRules ==
    (Returned /\ ~BlacklistTriggered) =>
        ret.resp.Score = SumTriggered(ret.resp.Rules)

(* C6: when the customer is blacklisted every flag the other evaluators    *)
(* raise for the same signals is in the flag set beside "blacklisted",     *)
(* and no other evaluator is skipped.                                      *)
BlacklistKeepsOtherFlags ==
    (Returned /\ BlacklistTriggered) =>
        /\ "blacklisted" \in FlagSet(ret.resp)
        /\ \A name \in OtherEvaluators("blacklist_check") :
              /\ TableFlags(name) \subseteq FlagSet(ret.resp)
              /\ LookupSucceeded(name) =>
                    \E k \in 1..Len(ret.resp.Rules) : ret.resp.Rules[k].RuleName = name
        /\ FlagSet(ret.resp) =
              UNION {TableFlags(rules[k]) : k \in 1..Len(rules)}

BlacklistKeepsOtherFlagsWitness ==
    /\ Returned
    /\ BlacklistTriggered
    /\ {"high_velocity", "blacklisted", "unusual_hour", "new_device"}
          \subseteq FlagSet(ret.resp)

(* C7: when the lookup of exactly one evaluator fails, every other          *)
(* evaluator runs and leaves the score, flags and rule results it leaves   *)
(* without that failure, and the call returns a decision with a nil error. *)
OneFailureKeepsOthers ==
    (Returned /\ Cardinality(FailedRules) = 1) =>
        LET others == SelectSeq(rules, LookupSucceeded)
            expected == ApplyRules(others, InitResponse)
        IN  /\ ret.err = "nil"
            /\ ret.resp.Decision \in Decisions
            /\ RuleNames(ret.resp) = others
            /\ ret.resp.Rules = expected.Rules
            /\ ret.resp.Flags = expected.Flags
            /\ ret.resp.Score = expected.Score
            /\ \A name \in OtherEvaluators(CHOOSE f \in FailedRules : TRUE) :
                  TableFlags(name) \subseteq FlagSet(ret.resp)

OneFailureWitness ==
    /\ Returned
    /\ FailedRules = {"geolocation_check"}
    /\ ret.resp.Flags = <<"high_velocity", "large_amount", "unusual_hour", "new_device">>
    /\ ret.resp.Score = 95
    /\ ret.resp.Decision = DecisionBlock

(* C8: every response holds exactly one RuleResult per evaluator, and an   *)
(* evaluator whose lookup failed appears not triggered with score 0.       *)
OneRuleResultPerEvaluator ==
    Returned =>
        /\ RuleNames(ret.resp) = rules
        /\ \A k \in 1..Len(ret.resp.Rules) :
              LookupFailed(ret.resp.Rules[k].RuleName) =>
                  (~ret.resp.Rules[k].Triggered /\ ret.resp.Rules[k].Score = 0)

(* C9: a failed save does not change the outcome: the call returns a nil    *)
(* error and the response it had decided before the save, and the save is  *)
(* attempted exactly once.                                                 *)
SaveFailureKeepsDecision ==
    /\ Len(sink) <= 1
    /\ pc \in {"alert", "return", "done"} => Len(sink) = 1
    /\ Returned =>
          /\ ret.err = "nil"
          /\ FraudCheckResult(ret.resp) = sink[1].result
          /\ <<ret.resp.RiskLevel, ret.resp.Decision>> = PolicyTable(ret.resp.Score)

SaveFailureWitness ==
    /\ Returned
    /\ Len(sink) = 1
    /\ ~sink[1].ok
    /\ ret.resp.Decision = DecisionReview

(* C10: the Alert Channel is notified exactly when the final risk level is *)
(* high, after the decision was computed, and the response returned is the *)
(* one decided before the notification.                                    *)
AlertIffHighRisk ==
    /\ Len(alerts) <= 1
    /\ pc \in {"idle", "rules", "save", "alert"} => alerts = << >>
    /\ pc \in {"return", "done"} =>
          (Len(alerts) = 1 <=> resp.RiskLevel = RiskLevelHigh)
    /\ alerts # << >> =>
          /\ alerts[1].Decision \in Decisions
          /\ alerts[1].RiskLevel = calculateRiskLevel(alerts[1].Score)
          /\ FraudCheckResult(alerts[1]) = sink[1].result
    /\ Returned =>
          /\ FraudCheckResult(ret.resp) = sink[1].result
          /\ alerts # << >> => ret.resp = alerts[1]

AlertWitness ==
    /\ Returned
    /\ Len(alerts) = 1
    /\ ret.resp.RiskLevel = RiskLevelHigh
    /\ ret.resp.Score = 70

(* C11: when the caller's deadline passes while the pipeline runs, the    *)
(* call still ends (it is never stuck before its return) and returns a     *)
(* decision with a nil error; the evaluators whose lookups failed leave no *)
(* score and no flag, and what the other evaluators left is kept.          *)
DeadlineStillDecides ==
    /\ pc = "done" \/ ENABLED Next
    /\ (Returned /\ deadline = "exceeded") =>
          LET finished == SelectSeq(rules, LookupSucceeded)
              expected == ApplyRules(finished, InitResponse)
          IN  /\ ret.err = "nil"
              /\ <<ret.resp.RiskLevel, ret.resp.Decision>> = PolicyTable(ret.resp.Score)
              /\ ret.resp.Rules = expected.Rules
              /\ ret.resp.Flags = expected.Flags
              /\ ret.resp.Score = expected.Score
              /\ \A name \in FailedRules :
                    \A k \in 1..Len(ret.resp.Rules) : ret.resp.Rules[k].RuleName # name
              /\ FlagSet(ret.resp) = UNION {TableFlags(rules[k]) : k \in 1..Len(rules)}

DeadlineWitness ==
    /\ Returned
    /\ deadline = "exceeded"
    /\ ret.resp.Flags = <<"moderate_velocity", "elevated_amount", "unusual_hour">>
    /\ FailedRules = {"blacklist_check", "device_fingerprint"}
    /\ ~sink[1].ok
    /\ ret.resp.Score = 45
    /\ ret.resp.Decision = DecisionReview

\* no blacklist hit, a known location, a normal hour and a known device
NeutralSignals ==
    /\ signals.blacklist.asked /\ ~signals.blacklist.err /\ ~signals.blacklist.val
    /\ signals.geo.asked /\ ~signals.geo.err /\ req.Country \in signals.geo.val
    /\ req.Country \notin {"XX", "YY"}
    /\ signals.hour.asked /\ signals.hour.val \notin 2..5
    /\ \/ req.DeviceFingerprint = ""
       \/ signals.device.asked /\ ~signals.device.err /\ signals.device.val
    /\ signals.velocity.asked /\ ~signals.velocity.err

\* the velocity and amount rows of the table of evaluators (spec 4.2)
VelocityRow(count) ==
    IF count > 10 THEN [score |-> 40, flags |-> <<"high_velocity">>]
    ELSE IF count > 5 THEN [score |-> 20, flags |-> <<"moderate_velocity">>]
    ELSE [score |-> 0, flags |-> << >>]

AmountRow(amount) ==
    IF amount > 10000 THEN [score |-> 30, flags |-> <<"large_amount">>]
    ELSE IF amount > 5000 THEN [score |-> 15, flags |-> <<"elevated_amount">>]
    ELSE [score |-> 0, flags |-> << >>]

(* C12: with neutral blacklist, location, hour and device signals the      *)
(* result is the velocity row plus the amount row of the table: scenario A *)
(* (15000, count 0) gives 30/low/approve, B (100, count 12) gives          *)
(* 40/medium/review, C (15000, count 12) gives 70/high/review.             *)
VelocityAndAmountOnly ==
    (Returned /\ NeutralSignals) =>
        LET v == VelocityRow(signals.velocity.val)
            a == AmountRow(req.Amount)
            r == ret.resp
        IN  /\ r.Score = v.score + a.score
            /\ r.Flags = v.flags \o a.flags
            /\ <<r.RiskLevel, r.Decision>> = PolicyTable(r.Score)
            /\ (req.Amount = 15000 /\ signals.velocity.val = 0) =>
                  /\ r.Flags = <<"large_amount">>
                  /\ r.Score = 30 /\ r.RiskLevel = "low" /\ r.Decision = "approve"
            /\ (req.Amount = 100 /\ signals.velocity.val = 12) =>
                  /\ r.Flags = <<"high_velocity">>
                  /\ r.Score = 40 /\ r.RiskLevel = "medium" /\ r.Decision = "review"
            /\ (req.Amount = 15000 /\ signals.velocity.val = 12) =>
                  /\ r.Flags = <<"high_velocity", "large_amount">>
                  /\ r.Score = 70 /\ r.RiskLevel = "high" /\ r.Decision = "review"

ScenarioCWitness ==
    /\ Returned
    /\ NeutralSignals
    /\ req.Amount = 15000
    /\ signals.velocity.val = 12
    /\ ret.resp.Flags = <<"high_velocity", "large_amount">>
    /\ ret.resp.Score = 70
    /\ ret.resp.RiskLevel = RiskLevelHigh
    /\ ret.resp.Decision = DecisionReview

\* C13: two calls of Predict on the same model and the same feature vector
\* return the same value.
PredictDeterministic ==
    \A i, j \in 1..Len(pred.results) : pred.results[i] = pred.results[j]

\* C18: on a model that was created and never trained, Predict returns what
\* it returns on the pretrained default model.
UntrainedPredictsAsPretrained ==
    (~live.trained /\ pred.pc = "done") =>
        pred.results[Len(pred.results)] \in PredictResults(LoadPretrainedModel, pred.f)

\* C14: throughout and after TrainModel the weights, the bias and the trained
\* flag of the model that serves Predict are those it had when TrainModel was
\* called.
TrainingLeavesLiveModel ==
    train.pc # "idle" =>
        /\ live.weights = train.m0.weights
        /\ live.bias = train.m0.bias
        /\ live.trained = train.m0.trained

\* C15: a Predict call that runs concurrently with training computes its
\* score from the weights and the bias of one complete model: the model as it
\* was when TrainModel was called or as one of the batches leaves it.
PredictSeesOneModel ==
    pred.pc = "done" =>
        \E v \in train.versions : pred.score \in PredictScores(v, pred.f)

LoadFallsBackToPretrained ==
    (call.op = "LoadModel" /\ files[call.path].state \in {"missing", "corrupt"}) =>
        /\ call.err = "nil"
        /\ call.model = LoadPretrainedModel

\* a metric is a defined number in [0,1]
Defined01(x) == x.kind = "number" /\ 0 <= x.v /\ x.v <= One

\* C19: for every test set, the empty one included, the accuracy, precision,
\* recall and F1 that EvaluateModel returns are defined numbers in [0,1],
\* precision is 0 when TP+FP = 0, recall is 0 when TP+FN = 0, and the four
\* counts of the confusion matrix sum to the number of examples.
EvaluateMetricsDefined ==
    (call.op = "EvaluateModel" /\ call.pc = "done") =>
        LET r == call.metrics
        IN  /\ Defined01(r.accuracy)
            /\ Defined01(r.precision)
            /\ Defined01(r.recall)
            /\ Defined01(r.f1_score)
            /\ (r.true_positives + r.false_positives = 0 => r.precision = Num(0))
            /\ (r.true_positives + r.false_negatives = 0 => r.recall = Num(0))
            /\ r.true_positives + r.false_positives + r.true_negatives + r.false_negatives
                 = Len(call.tests)

\* the smaller of two numbers
Lesser(a, b) == IF a < b THEN a ELSE b

\* the vector the call returned has the five keys, every value in [0,1],
\* amount = min(amount/10000, 1), velocity = min(count/20, 1), booleans 1 or 0
FeatureContract ==
    LET f == call.features
    IN  /\ DOMAIN f = {"amount", "velocity", "new_location", "unusual_hour", "new_device"}
        /\ \A k \in DOMAIN f : 0 <= f[k] /\ f[k] <= One
        /\ f["amount"] = Lesser(FDiv(call.amount, 10000), One)
        /\ f["velocity"] = Lesser(FDiv(call.velocityCount, 20), One)
        /\ f["new_location"] = (IF call.isNewLocation THEN One ELSE 0)
        /\ f["unusual_hour"] = (IF call.isUnusualHour THEN One ELSE 0)
        /\ f["new_device"] = (IF call.isNewDevice THEN One ELSE 0)

VersionsAreTheModels ==
    (train.pc \in {"epoch", "batch"} /\ train.epoch <= RaceEpochs /\ train.err = "nil")
        => live \in train.versions

\* what AnalyzeTransaction yields when its rules slice holds the evaluators
\* in the order p, on the answers the Signal Store gave
OutcomeInOrder(p) ==
    LET r == ApplyRules(p, InitResponse)
    IN  [ Score |-> r.Score,
          RiskLevel |-> calculateRiskLevel(r.Score),
          Decision |-> makeDecision(calculateRiskLevel(r.Score), r.Score),
          Flags |-> FlagSet(r) ]

\* C23: for every permutation of the six evaluators and the same answers of
\* the Signal Store, AnalyzeTransaction yields the final score, risk level,
\* decision and set of flags it has returned.
OrderIndependent ==
    Returned =>
        \A p \in Orders({rules[i] : i \in 1..Len(rules)}) :
            OutcomeInOrder(p) =
                [ Score |-> ret.resp.Score, RiskLevel |-> ret.resp.RiskLevel,
                  Decision |-> ret.resp.Decision, Flags |-> FlagSet(ret.resp) ]

\* the Feature Extractor has produced the features of the request
FeaturesExtracted ==
    /\ call # NoCall
    /\ call.op = "ExtractFeatures"
    /\ call.pc = "done"

\* an evaluator of the request has run
RuleHasRun == idx > 1

\* C24: a request goes through Received, FeaturesExtracted, RulesEvaluated,
\* Scored, Decided, Persisted in this order: the features are extracted
\* before any rule runs, level and decision are computed only after all
\* evaluators have finished, and the persisted result carries the decided
\* score, level and decision.
StagesInOrder ==
    /\ RuleHasRun => FeaturesExtracted
    /\ resp.Decision # "" => idx > Len(rules)
    /\ \A i \in 1..Len(sink) :
          /\ sink[i].result = FraudCheckResult(resp)
          /\ sink[i].result.Decision = makeDecision(calculateRiskLevel(resp.Score), resp.Score)

\* the part of C24 about the stages the code has: it holds
StagesWithoutFeatures ==
    /\ resp.Decision # "" => idx > Len(rules)
    /\ \A i \in 1..Len(sink) :
          /\ sink[i].result = FraudCheckResult(resp)
          /\ sink[i].result.Decision = makeDecision(calculateRiskLevel(resp.Score), resp.Score)

RECURSIVE GradientsIn(_, _, _, _, _)
\* the gradients of a batch of the model m whose examples are taken in the
\* order p, after the first j of them: the loop "Process batch"
GradientsIn(m, data, labels, p, j) ==
    IF j = 0 THEN {[gradients |-> << >>, biasGradient |-> 0]}
    ELSE { LET error == FSub(Fl(RoundDiv(PredictIn(m, data[p[j]], o), 100)), labels[p[j]])
           IN  [ gradients |-> AddGradients(a.gradients, data[p[j]], error),
                 biasGradient |-> FAdd(a.biasGradient, error) ] :
           a \in GradientsIn(m, data, labels, p, j - 1), o \in Orders(DOMAIN data[p[j]]) }

\* the models a run of TrainModel started on m with the same examples and
\* labels can hold after its first batch, when rand.Perm returns p
AfterBatchIn(m, data, labels, p) ==
    { BatchResult(m, g.gradients, g.biasGradient, Len(data)) :
        g \in GradientsIn(m, data, labels, p, Len(data)) }

\* the first batch of the first epoch is processed and nothing is written yet
FirstBatchProcessed ==
    /\ train.pc = "sample"
    /\ train.epoch = 0
    /\ train.i = 0
    /\ train.j = train.end
    /\ Len(train.data) <= batchSize

\* C25: a second run of TrainModel started from an equal model with the same
\* examples and labels ends its first epoch with the weights and the bias of
\* this run, whatever the global random source gives it as permutation.
TrainReproducible ==
    FirstBatchProcessed =>
        \A p \in Perm(Len(train.data)) :
            AfterBatchIn(live, train.data, train.labels, p) =
                {BatchResult(live, train.gradients, train.biasGradient, train.end - train.i)}

\* TrainModel has returned an error
TrainRejected == train.pc = "done" /\ train.err # "nil"

\* TrainModel has returned nil
TrainCompleted == train.pc = "done" /\ train.err = "nil"

\* the examples the epoch has visited so far, in the order of the visits
Visited == [k \in 1..train.j |-> train.indices[k]]

\* the last batch of an epoch is processed
EpochProcessed ==
    /\ train.pc = "sample"
    /\ train.j = train.end
    /\ train.end = Len(train.data)

\* what C26 says of every state of a TrainModel call
TrainModelContract ==
    /\ TrainRejected <=>
          /\ train.pc = "done"
          /\ Len(train.data) = 0 \/ Len(train.data) # Len(train.labels)
    /\ TrainRejected => live = train.m0
    /\ TrainCompleted => train.epoch = epochs
    /\ EpochProcessed =>
          \A x \in 1..Len(train.data) :
              Cardinality({k \in 1..Len(Visited) : Visited[k] = x}) = 1
    /\ DOMAIN live.weights = DOMAIN train.m0.weights
    /\ live.trained # train.m0.trained => live.trained /\ TrainCompleted

\* an upper bound of the steps one epoch of the call takes
EpochSteps == 2 * Len(train.data) + batchSize + Cardinality(DOMAIN live.weights) + 10

\* the steps the epoch has taken: two for every example of the batches that
\* are written, and those of the batch in progress
StepsInEpoch ==
    2 * train.i +
    CASE train.pc = "batch" -> 0
      [] train.pc = "sample" -> 1 + (train.j - train.i)
      [] train.pc = "update" ->
           2 + (train.end - train.i) + (Cardinality(DOMAIN live.weights) - Cardinality(train.todo))
      [] OTHER -> 0

\* a bound of the steps the call has left: it is what the three nested loops
\* of TrainModel count down
TrainVariant ==
    CASE train.pc = "done" -> 0 - 1
      [] train.pc = "epoch" -> (epochs - train.epoch) * EpochSteps
      [] OTHER -> (epochs - train.epoch) * EpochSteps - 1 - StepsInEpoch

\* C26: TrainModel called with no example or with a number of labels other
\* than the number of examples returns an error and leaves weights, bias and
\* trained flag as they were; on valid input it returns after 100 epochs
\* (every step of the call brings its loops nearer to their end), every epoch
\* visits every example exactly once, the set of weight keys stays the same,
\* and trained becomes true only after the last epoch.
TrainModelValidatesAndTerminates ==
    /\ []TrainModelContract
    /\ [][train.pc # "idle" => TrainVariant' < TrainVariant]_train

\* TrainModel has rejected labels that do not match the examples
TrainRejectedWitness ==
    /\ TrainRejected
    /\ Len(train.data) > 0
    /\ Len(train.data) # Len(train.labels)
    /\ live = train.m0

\* TrainModel has run its 100 epochs on an untrained model
TrainCompletedWitness ==
    /\ TrainCompleted
    /\ train.epoch = epochs
    /\ live.trained
    /\ ~train.m0.trained

\* the payments the successful CreatePayment calls with the key k returned
ReturnedFor(k) ==
    UNION { { calls[c].rets[i].payment :
                i \in {j \in 1..Len(calls[c].rets) : calls[c].rets[j].err = "nil"} } :
            c \in {d \in Clients : calls[d].pc # "off" /\ calls[d].req.IdempotencyKey = k} }

\* C27: for the CreatePayment calls that carry the same non-empty idempotency
\* key, in any order and interleaving, at most one payment record and at most
\* one Stripe payment intent exist, and every successful call has returned
\* the same payment.
CreateIdempotent ==
    \A k \in IdempotencyKeys \ {""} :
        /\ Cardinality({row \in payments : row.IdempotencyKey = k}) <= 1
        /\ Cardinality({intent \in intents : intent.key = k}) <= 1
        /\ Cardinality(ReturnedFor(k)) <= 1

\* the part of C27 the UNIQUE constraint of the payments table gives
OneRecordPerKey ==
    \A k \in IdempotencyKeys :
        Cardinality({row \in payments : row.IdempotencyKey = k}) <= 1

RECURSIVE SumOf(_)
\* the sum of the amounts of the rows S
SumOf(S) ==
    IF S = {} THEN 0
    ELSE LET e == CHOOSE x \in S : TRUE IN e.Amount + SumOf(S \ {e})

\* the stored entries of the transaction id with the given type
StoredEntries(id, type) ==
    {e \in ledger.entries : e.TransactionID = id /\ e.Type = type}

\* the sum of the amounts of the given type in a request
RequestTotal(entries, type) ==
    SumOf({[i |-> i, Amount |-> entries[i].Amount] :
             i \in {j \in 1..Len(entries) : entries[j].Type = type}})

\* the last CreateDoubleEntry call has returned an error
LedgerRejected ==
    /\ tx.pc = "idle"
    /\ tx.n > 0
    /\ tx.rets[Len(tx.rets)].err # "nil"

\* every stored transaction has equal debits and credits
StoredBalanced ==
    \A t \in ledger.transactions :
        SumOf(StoredEntries(t.ID, EntryTypeDebit)) = SumOf(StoredEntries(t.ID, EntryTypeCredit))

\* a request with unequal totals is rejected and writes nothing
UnequalRejected ==
    RequestTotal(tx.req, EntryTypeDebit) # RequestTotal(tx.req, EntryTypeCredit) =>
        /\ ledger = NoRows
        /\ (tx.pc = "idle" /\ tx.n > 0) => LedgerRejected

\* a transaction row is stored with all the entries of its request, an entry
\* only with its transaction row, and a call that fails stores nothing
StoredAtomically ==
    /\ \A t \in ledger.transactions :
          Cardinality({e \in ledger.entries : e.TransactionID = t.ID}) = Len(tx.req)
    /\ \A e \in ledger.entries : \E t \in ledger.transactions : t.ID = e.TransactionID
    /\ LedgerRejected => ledger = tx.before

\* C28: every ledger transaction CreateDoubleEntry has stored is balanced: the
\* sum of its debit entries equals the sum of its credit entries; a request
\* with unequal totals is rejected and writes nothing; the transaction row and
\* all its entries are stored together or not at all.
LedgerBalancedAndAtomic ==
    /\ StoredBalanced
    /\ UnequalRejected
    /\ StoredAtomically

\* the parts of C28 that hold
LedgerAtomicAndChecked == UnequalRejected /\ StoredAtomically

\* the statuses in which a payment may be cancelled
Cancellable == {PaymentStatusPending, PaymentStatusRequiresAction}

\* the status the payment id had when the table was set up
StatusBefore(c, id) == (CHOOSE row \in calls[c].stored : row.ID = id).Status

\* a status is changed only to cancelled and only from pending or
\* requires_action
CancelledOnlyFromCancellable ==
    \A c \in Clients : \A row \in payments :
        row.Status # StatusBefore(c, row.ID) =>
            /\ row.Status = PaymentStatusCancelled
            /\ StatusBefore(c, row.ID) \in Cancellable

\* a call that read any other status returned the error of the status check
OtherStatusRejected ==
    \A c \in Clients : \A i \in 1..Len(calls[c].rets) :
        calls[c].rets[i].status \in PaymentStatuses \ Cancellable =>
            calls[c].rets[i].err = "payment cannot be cancelled"

\* the call did not return: the goroutine panicked
Panicked(err) == err = "panic: nil pointer dereference"

\* a call for an id that is not stored returned an error
UnknownRejected ==
    \A c \in Clients : \A i \in 1..Len(calls[c].rets) :
        calls[c].rets[i].status = "unknown" =>
            /\ calls[c].rets[i].err # "nil"
            /\ ~Panicked(calls[c].rets[i].err)

\* C29: CancelPayment sets a status to cancelled only when it is pending or
\* requires_action; for a payment in another status it returns an error and
\* leaves the stored status as it is; for an unknown id it returns an error
\* and does not fail abnormally.
CancelOnlyPendingOrError ==
    /\ CancelledOnlyFromCancellable
    /\ OtherStatusRejected
    /\ UnknownRejected

\* the parts of C29 about stored payments: they hold
CancelOfStoredPayment == CancelledOnlyFromCancellable /\ OtherStatusRejected

\* C30: GetRate never returns a nil rate together with a nil error: after a
\* cache miss and a failure of the API it returns a rate of the database or
\* an error, and Convert never dereferences a missing rate.
GetRateNeverNilWithoutError ==
    /\ \A i \in 1..Len(fx.got) : ~(fx.got[i].rate = NilRate /\ fx.got[i].err = "nil")
    /\ \A i \in 1..Len(fx.rets) : ~Panicked(fx.rets[i].err)

\* GetRate with a row in the table: what it returns without an error is a rate
GetRateWithStoredRate ==
    (\E r \in rates.db : r.Timestamp = 0) =>
        \A i \in 1..Len(fx.got) : ~(fx.got[i].rate = NilRate /\ fx.got[i].err = "nil")

\* the bytes of the card number are decimal digits
IsDigits(cardNumber) ==
    \A i \in 1..Len(cardNumber) : cardNumber[i] \in Zero..(Zero + 9)

RECURSIVE LuhnFromRight(_, _)
\* the Luhn sum: every second digit, counted from the right, is doubled
LuhnFromRight(cardNumber, j) ==
    IF j >= Len(cardNumber) THEN 0
    ELSE LET d == cardNumber[Len(cardNumber) - j] - Zero
         IN  (IF j % 2 = 1 THEN (IF 2 * d > 9 THEN 2 * d - 9 ELSE 2 * d) ELSE d)
               + LuhnFromRight(cardNumber, j + 1)

\* a non-empty digit string whose Luhn sum is divisible by 10
LuhnValid(cardNumber) ==
    /\ cardNumber # << >>
    /\ IsDigits(cardNumber)
    /\ LuhnFromRight(cardNumber, 0) % 10 = 0

\* the last call of client c returned the error err
Rejected(c, err) ==
    /\ calls[c].rets # << >>
    /\ calls[c].rets[Len(calls[c].rets)].err = err

\* no payment row and no payment intent was created for client c
CreatedNothing(c) ==
    /\ \A row \in payments : row.ID.client # c
    /\ \A intent \in intents : intent.ID.client # c

\* C21: ValidateLuhnChecksum returns true exactly for the non-empty digit
\* strings whose Luhn sum is divisible by 10, and CreatePayment rejects a card
\* number for which it returns false before a payment is created.
LuhnAsClaimed ==
    \A c \in Clients :
        calls[c].checked.luhn # "none" =>
            /\ (calls[c].checked.luhn = "true") = LuhnValid(calls[c].req.CardNumber)
            /\ calls[c].checked.luhn = "false" =>
                  (Rejected(c, "invalid card number") /\ CreatedNothing(c))

\* the network of a card number by its first two characters
NetworkTable(cardNumber) ==
    IF Len(cardNumber) < 2 \/ ~IsDigits(SubSeq(cardNumber, 1, 2)) THEN ""
    ELSE LET n == 10 * (cardNumber[1] - Zero) + (cardNumber[2] - Zero)
         IN  IF n \in {34, 37} THEN "amex"
             ELSE IF n \in 40..49 THEN "visa"
             ELSE IF n \in (51..55) \cup (22..27) THEN "mastercard"
             ELSE IF n \in 60..65 THEN "discover"
             ELSE ""

LuhnOnDigits ==
    \A c \in Clients :
        (calls[c].checked.luhn # "none" /\ calls[c].req.CardNumber # << >>
           /\ IsDigits(calls[c].req.CardNumber)) =>
            /\ (calls[c].checked.luhn = "true") = LuhnValid(calls[c].req.CardNumber)
            /\ calls[c].checked.luhn = "false" =>
                  (Rejected(c, "invalid card number") /\ CreatedNothing(c))

====
